---------------------------- MODULE Spec2Model ----------------------------
(***************************************************************************)
(* Session / presence / room-membership coordinator of ghost_hub.py.       *)
(*                                                                         *)
(* Strings of the program are modelled as sequences of one-character       *)
(* strings, so that strip(), startswith("#") and slicing are computed      *)
(* as the code computes them.  A missing key and an empty value of an      *)
(* event payload are both the empty sequence: every read in the handlers   *)
(* goes through `x.get(k) or default`, which treats the two alike.         *)
(* The direct-message relay (dm_open, dm_send, dm_sealed, seal_request,    *)
(* seal_accept) and the per-room world documents (homes_v2 and its         *)
(* default / selected pointers) are modelled in sections of their own,     *)
(* as are the dispatch of chat texts (button rows, the home and world      *)
(* wizards, the home router, maybe_run_bot), the home builder, the world   *)
(* roles and the two stores of room documents.  A chat text is the         *)
(* sequence of its words.                                                  *)
(* The last_seen timestamps of the presence entries, the ts field of the   *)
(* direct-message payloads and the room history and log are left out.      *)
(* What a room handler emits is kept as the event name, its addressee,     *)
(* its room and, for the two presence broadcasts, the set of connection    *)
(* ids listed.                                                             *)
(* Handlers run on threads.  Where a handler reads shared state and writes *)
(* it later without holding a lock across the two, it is modelled as        *)
(* separate steps, and what it holds in between is kept per handler thread. *)
(***************************************************************************)
EXTENDS Integers, Sequences, FiniteSets, TLC

(* ------------------------------ bounds -------------------------------- *)

\* number of transport sessions (connection ids 1..NumSids)
NumSids == 2

\* number of events handled in one run
MaxEvents == 5

\* the plaintext messages that one DM channel is sent
MaxDmSends == 202

\* number of chat texts sent in one run of the dispatcher
MaxTexts == 3

Sids == 1..NumSids

(* ----------------------- program constants ---------------------------- *)

MAIN_ROOM == <<"#", "l", "o", "b", "b", "y">>

GUEST == <<"g", "u", "e", "s", "t">>

\* the slice bound of `[:32]` on the joined-room list
ROOMS_CAP == 32

\* the maxlen of each deque of _dm_history
DM_HISTORY_MAX == 200

\* the slice bound of `[-8:]` on a new home id
ID_LEN == 8

\* the slice bound of `[:48]` on the display name
NAME_CAP == 48

JOIN_PREFIX == <<"/", "j", "o", "i", "n", " ">>

PART_PREFIX == <<"/", "p", "a", "r", "t", " ">>

(* --------------------------- string helpers --------------------------- *)

\* seq[:n]
Take(s, n) == SubSeq(s, 1, IF Len(s) < n THEN Len(s) ELSE n)

\* seq[n:]
Drop(s, n) == SubSeq(s, n + 1, Len(s))

RECURSIVE LStrip(_)
LStrip(s) == IF s # <<>> /\ Head(s) = " " THEN LStrip(Tail(s)) ELSE s

RECURSIVE RStrip(_)
RStrip(s) ==
    IF s # <<>> /\ s[Len(s)] = " " THEN RStrip(SubSeq(s, 1, Len(s) - 1)) ELSE s

\* str.strip()
Strip(s) == RStrip(LStrip(s))

\* str.startswith(p)
StartsWith(s, p) == Len(s) >= Len(p) /\ SubSeq(s, 1, Len(p)) = p

\* `if not r.startswith("#"): r = "#" + r`
HashPrefix(r) == IF StartsWith(r, <<"#">>) THEN r ELSE <<"#">> \o r

\* x in list
Contains(list, x) == \E i \in 1..Len(list) : list[i] = x

\* args.index(name)
IndexOf(args, name) ==
    CHOOSE i \in 1..Len(args) :
        args[i] = name /\ \A j \in 1..(i - 1) : args[j] # name

Range(list) == {list[i] : i \in 1..Len(list)}

\* list(dict.fromkeys(list)): first occurrences, in order
RECURSIVE Dedupe(_)
Dedupe(list) ==
    IF list = <<>> THEN <<>>
    ELSE LET init == SubSeq(list, 1, Len(list) - 1)
             x    == list[Len(list)]
         IN  IF Contains(init, x) THEN Dedupe(init) ELSE Append(Dedupe(init), x)

\* [r for r in rooms if r != room]
Without(list, room) == SelectSeq(list, LAMBDA r : r # room)

(* ------------------------------ inputs -------------------------------- *)

ROOM_B == <<"#", "b">>

\* "lobby", the lobby named without its prefix
LOBBY_BARE == Tail(MAIN_ROOM)

Digit == <<"0", "1", "2", "3", "4", "5", "6", "7", "8", "9">>

\* "#r01", "#r02", ...: distinct rooms that fill a long request
RoomN(i) == <<"#", "r", Digit[(i \div 10) + 1], Digit[(i % 10) + 1]>>

\* a request of ROOMS_CAP distinct rooms followed by the lobby
LongList == [i \in 1..ROOMS_CAP |-> RoomN(i)] \o <<MAIN_ROOM>>

\* the room named by a leave payload or after "/join ", "/part "
Targets == { LOBBY_BARE, MAIN_ROOM, <<" ", "a">> }

\* the `user` value of payloads: a name with a trailing blank
USER_AL == <<"a", "l", " ">>

Users == { USER_AL }

\* the `room` values of send_message payloads
MsgRooms == { <<>> }

\* the messages that take the /join and /part branches of on_send_message
Msgs == {JOIN_PREFIX \o t : t \in Targets} \cup {PART_PREFIX \o t : t \in Targets}

JoinPayload(rooms, room, active) ==
    [user |-> USER_AL, rooms |-> rooms, room |-> room, active |-> active]

\* the join payloads: no room at all, the legacy `room` key alone, a list
\* with a bare lobby, a blank name and a focus outside the list, and the
\* long list
JoinData ==
    { JoinPayload(<<>>, <<>>, <<>>),
      JoinPayload(<<>>, <<"b">>, <<>>),
      JoinPayload(<<ROOM_B, LOBBY_BARE, <<" ">>>>, <<>>, <<"a">>),
      JoinPayload(LongList, <<>>, <<>>) }

LeaveData == [room : Targets \cup {<<>>}]

MsgData == [user : Users, room : MsgRooms, msg : Msgs]

\* request.sid of connection s
SidName(s) == <<"s", Digit[s + 1]>>

\* a connection id that no connection of the model has
UNKNOWN_SID == <<"z", "z">>

\* the two connections that exchange DM events
DmSids == {1, 2}

\* the to_sid of a DM event: absent, the padded ids of the two
\* connections, and an id no connection has
DmTo == {<<>>, UNKNOWN_SID} \cup {<<" ">> \o SidName(s) : s \in DmSids}

\* the k-th plaintext body, so that every stored message is told apart
MsgN(k) ==
    <<"m", Digit[((k \div 100) % 10) + 1], Digit[((k \div 10) % 10) + 1],
      Digit[(k % 10) + 1]>>

CT == <<" ", "c", "t", " ">>

IV == <<"i", "v">>

GS == <<"g", "s">>

PK == <<" ", "p", "k">>

DmOpenData == [to_sid : DmTo]

\* the dm_send payloads when `seq` plaintext messages were sent before
DmSendData(seq) == [to_sid : DmTo, msg : {<<>>, <<" ">> \o MsgN(seq + 1)}]

SealedData == [to_sid : DmTo, ciphertext_b64 : {CT}, iv_b64 : {IV},
               glyphset : {GS}]

SealData == [to_sid : DmTo, pubkey_jwk : {PK}]

\* the users that send home commands
HomeUsers == {"al", "bo"}

\* the millisecond clock when the hub starts
T0 == 1900000007

\* the milliseconds that pass between two reads of the clock in one handler
Ticks == {0, 1}

\* the milliseconds between the clock reads of two chat events
EVENT_MS == 1

\* the room names that the door commands name
DOOR_FROM == "A"

DOOR_TO == "B"

(* ------------------------------- state -------------------------------- *)

VARIABLES
    conn,          \* transport state of each connection id
    online,        \* _online: sid -> presence entry
    room_members,  \* _room_members: room -> set of sids
    joined,        \* per sid: "join" once a join was handled, else "slash"
                   \* once a /join or /part was, else "no"
    steps,         \* the number of events handled so far
    last,          \* the event handled last: its name, sid and target room
    out,           \* the events emitted while handling it, in order
    dm_history,    \* _dm_history: pair key -> the plaintext DMs kept
    dm_rooms,      \* per sid: the relay groups join_room put it in
    dm_seq,        \* the number of dm_send events handled so far
    dm_sealed,     \* the relay groups a sealed payload was relayed to
    dm_out,        \* the DM events emitted while handling the last event
    room_state,    \* get_room_state(room): the room's document in STATE_FILE
    world_state,   \* _world_state_by_room[room]
    home_doc,      \* the document that the last home code worked on
    home_cmd,      \* the home command handled last
    now,           \* the clock, in milliseconds
    world_db,      \* the room's row of the world_states table, if any
    loaded,        \* what the last `st = _load_world_state(room)` bound
    build_toks,    \* the words that the run's `!home build` messages carry
    home_wizard,   \* _HOME_WIZARD: per user of the room, the step and data
    world_wizard,  \* _WORLD_WIZARD: per user of the room, the step
    world_roles,   \* the room's row of the world_roles table
    replies,       \* the chat messages emitted for the last command
    inflight       \* per handler thread: what a handler that has read a
                   \* document or the roles, and has not yet written, holds

dm_vars == <<dm_history, dm_rooms, dm_seq, dm_sealed, dm_out>>

home_vars ==
    <<room_state, world_state, home_doc, home_cmd, now, world_db, loaded,
      build_toks, home_wizard, world_wizard, world_roles, replies,
      inflight>>

vars ==
    <<conn, online, room_members, joined, steps, last, out, dm_vars, home_vars>>

\* defaultdict(set) read: a missing key reads as the empty set
Members(m, r) == IF r \in DOMAIN m THEN m[r] ELSE {}

\* `u.get("rooms") or [u.get("room", MAIN_ROOM)]`
RoomsOf(u) == IF u.rooms # <<>> THEN u.rooms ELSE <<u.room>>

Event(ev, toSid, toRoom, room, users) ==
    [ev |-> ev, toSid |-> toSid, toRoom |-> toRoom, room |-> room, users |-> users]

\* socketio.emit("user_list_update", ...): every entry of _online, to everyone
EmitUserList(on) == Event("user_list_update", 0, <<>>, MAIN_ROOM, DOMAIN on)

\* the users that _emit_room_user_list collects for a room
RoomUsers(on, room) == {s \in DOMAIN on : Contains(RoomsOf(on[s]), room)}

\* emit("room_users", {"room": room, "users": users}, to=room)
EmitRoomUserList(on, room0) ==
    LET room == HashPrefix(IF room0 = <<>> THEN MAIN_ROOM ELSE room0)
    IN  Event("room_users", 0, room, room, RoomUsers(on, room))

\* emit("chat_message", ..., to=target) and the other per-room notices
EmitTo(ev, toSid, toRoom, room) == Event(ev, toSid, toRoom, room, {})

Last(op, sid, room) == [op |-> op, sid |-> sid, room |-> room]

\* one more event handled, within the budget of the model
Handled(op, sid, room) ==
    /\ steps < MaxEvents
    /\ steps' = steps + 1
    /\ last' = Last(op, sid, room)

\* {}: a document without homes_v2, default_home_id and
\* selected_home_by_user; _default_state() adds an empty "home"; world is
\* the name of the world that _build_world stored, if it stored one
EmptyDoc ==
    [homes    |-> <<>>,
     default  |-> <<>>,
     selected |-> [u \in HomeUsers |-> <<>>],
     home     |-> [rooms |-> <<>>, doors |-> <<>>],
     world    |-> <<>>]

BOT_NAME == "ghost-bot"

\* the keys of the wizard tables for one room: str(user).strip().lower()
WizardKeys == HomeUsers \cup {BOT_NAME}

\* data.get(key, default) of _home_wizard_finish on an empty data dict
NoData ==
    [name |-> <<"Home">>, bedrooms |-> 0, bathrooms |-> 0, kitchen |-> 1,
     total_rooms |-> 0]

\* no entry in _HOME_WIZARD: step 0; steps 1..9 are the nine questions
NoWizard == [step |-> 0, data |-> NoData]

\* no entry in _WORLD_WIZARD
NoWorldWizard == [step |-> 0, name |-> <<>>]

\* _get_world_roles(room) without a row, or with an empty one
NoRoles == [owner |-> <<>>, helpers |-> <<>>]

\* the handler thread is not between a read and its write
Idle ==
    [op |-> "none", user |-> "", doc |-> EmptyDoc, roles |-> NoRoles,
     sid |-> 0, todo |-> {}, del |-> <<>>]

\* a chat_message emitted to the sender ("sid") or to the room ("room")
Reply(kind, to, sender) == [kind |-> kind, to |-> to, sender |-> sender]

\* `--total_rooms 2`
DefaultBuildToks == <<"--total_rooms", "2">>

\* no home command was handled yet
NoCmd ==
    [op |-> "none", user |-> "", frm |-> "", to |-> "", hid |-> <<>>,
     raised |-> FALSE, msg |-> <<>>, dispatched |-> 0, again |-> FALSE]

Init ==
    /\ conn = [s \in Sids |-> "connecting"]
    /\ online = <<>>
    /\ room_members = <<>>
    /\ joined = [s \in Sids |-> "no"]
    /\ steps = 0
    /\ last = Last("none", 0, <<>>)
    /\ out = <<>>
    /\ dm_history = <<>>
    /\ dm_rooms = [s \in Sids |-> {}]
    /\ dm_seq = 0
    /\ dm_sealed = {}
    /\ dm_out = <<>>
    /\ room_state = EmptyDoc
    /\ world_state = EmptyDoc
    /\ home_doc = EmptyDoc
    /\ home_cmd = NoCmd
    /\ now = T0
    /\ world_db = <<>>
    /\ loaded = <<>>
    /\ build_toks = DefaultBuildToks
    /\ inflight = [s \in Sids |-> Idle]
    /\ home_wizard = [u \in WizardKeys |-> NoWizard]
    /\ world_wizard = [u \in WizardKeys |-> NoWorldWizard]
    /\ world_roles = NoRoles
    /\ replies = <<>>

(* --------------------------- dict helpers ----------------------------- *)

\* d[k] = v
Put(f, k, v) == [x \in DOMAIN f \cup {k} |-> IF x = k THEN v ELSE f[x]]

\* d.pop(k, None)
Pop(f, k) == [x \in DOMAIN f \ {k} |-> f[x]]

\* _room_members[r].add(sid) for one room
AddMember(m, r, sid) == Put(m, r, Members(m, r) \cup {sid})

\* `for r in norm_rooms: ... _room_members[r].add(sid)`
AddMemberAll(m, rooms, sid) ==
    [k \in DOMAIN m \cup Range(rooms) |->
        IF k \in Range(rooms) THEN Members(m, k) \cup {sid} ELSE m[k]]

\* _room_members[room].discard(sid); the defaultdict creates a missing key
DiscardMember(m, r, sid) == Put(m, r, Members(m, r) \ {sid})

\* on_disconnect with the lobby left out of its loop
DiscardEverywhere_SkipLobby(m, sid) ==
    [r \in DOMAIN m |-> IF r = MAIN_ROOM THEN m[r] ELSE m[r] \ {sid}]

\* the loop of on_disconnect: discard sid from every room, then delete the
\* rooms left empty, the lobby excepted
DiscardEverywhere(m, sid) ==
    LET m1 == [r \in DOMAIN m |-> m[r] \ {sid}]
    IN  [r \in {k \in DOMAIN m : m1[k] # {} \/ k = MAIN_ROOM} |-> m1[r]]

(* ------------------------------ connect ------------------------------- *)

\* the entry on_connect stores; it has no "rooms" key
DefaultEntry == [name |-> GUEST, room |-> MAIN_ROOM, rooms |-> <<>>]

on_connect(sid) ==
    /\ conn[sid] = "connecting"
    /\ conn' = [conn EXCEPT ![sid] = "active"]
    /\ online' = Put(online, sid, DefaultEntry)
    /\ out' = <<EmitUserList(online')>>
    /\ Handled("connect", sid, <<>>)
    /\ UNCHANGED <<room_members, joined>>

(* ----------------------------- disconnect ----------------------------- *)

\* The handler body.  The `_emit_user_list()` that follows it in the file
\* is at module level (column 0), so it is no part of the handler.
on_disconnect(sid) ==
    /\ conn[sid] = "active"
    /\ conn' = [conn EXCEPT ![sid] = "disconnected"]
    /\ online' = Pop(online, sid)
    /\ room_members' = DiscardEverywhere(room_members, sid)
    /\ out' = <<EmitRoomUserList(online', MAIN_ROOM)>>
    /\ Handled("disconnect", sid, <<>>)
    /\ UNCHANGED joined

\* The state that the steps of a handler in flight leave alone.
FlightFrame ==
    /\ dm_out' = <<>>
    /\ UNCHANGED <<dm_history, dm_rooms, dm_seq, dm_sealed>>
    /\ UNCHANGED <<room_state, world_state, home_doc, home_cmd, now, world_db,
                   loaded, build_toks, home_wizard, world_wizard, world_roles,
                   replies>>

\* on_disconnect up to its loop: the presence entry is popped under
\* _presence_lock and `list(_room_members.keys())` is taken; the loop that
\* follows holds no lock
BeginDisconnect(h, sid) ==
    /\ conn[sid] = "active"
    /\ inflight[h].op = "none"
    /\ conn' = [conn EXCEPT ![sid] = "disconnected"]
    /\ online' = Pop(online, sid)
    /\ inflight' = [inflight EXCEPT ![h] =
                       [Idle EXCEPT !.op = "disconnect", !.sid = sid,
                                    !.todo = DOMAIN room_members]]
    /\ out' = <<>>
    /\ Handled("disconnect", sid, <<>>)
    /\ UNCHANGED <<room_members, joined>>
    /\ FlightFrame

\* one turn of the loop up to its test: `_room_members[r].discard(sid)` and
\* `len(_room_members[r]) == 0 and r != MAIN_ROOM`.  The turns on different
\* rooms touch different keys, so the order of the keys is left open.
DisconnectDiscard(h) ==
    /\ inflight[h].op = "disconnect"
    /\ inflight[h].del = <<>>
    /\ \E r \in inflight[h].todo :
          LET m1 == DiscardMember(room_members, r, inflight[h].sid)
          IN  /\ room_members' = m1
              /\ inflight' = [inflight EXCEPT
                                 ![h].todo = @ \ {r},
                                 ![h].del = IF m1[r] = {} /\ r # MAIN_ROOM
                                            THEN r ELSE <<>>]
    /\ out' = <<>>
    /\ UNCHANGED <<conn, online, joined, steps, last>>
    /\ FlightFrame

\* the body of the test: `del _room_members[r]`, whatever the set holds by
\* now; a key that is gone raises KeyError, which the handler swallows
DisconnectDelete(h) ==
    /\ inflight[h].op = "disconnect"
    /\ inflight[h].del # <<>>
    /\ room_members' = Pop(room_members, inflight[h].del)
    /\ inflight' = [inflight EXCEPT ![h].del = <<>>]
    /\ out' = <<>>
    /\ UNCHANGED <<conn, online, joined, steps, last>>
    /\ FlightFrame

\* after the loop: the lobby's user list is emitted and the handler returns
EndDisconnect(h) ==
    /\ inflight[h].op = "disconnect"
    /\ inflight[h].del = <<>>
    /\ inflight[h].todo = {}
    /\ inflight' = [inflight EXCEPT ![h] = Idle]
    /\ out' = <<EmitRoomUserList(online, MAIN_ROOM)>>
    /\ UNCHANGED <<conn, online, room_members, joined, steps, last>>
    /\ FlightFrame

(* -------------------------------- join -------------------------------- *)

\* `user = (data.get("user") or "guest"); user = user.strip()[:48] or "guest"`
JoinUser(d) ==
    LET u == IF d.user = <<>> THEN GUEST ELSE d.user
        s == Take(Strip(u), NAME_CAP)
    IN  IF s = <<>> THEN GUEST ELSE s

\* the requested list: the legacy `room` when `rooms` is empty, and the lobby
\* in front when the raw list does not hold "#lobby"
JoinRawRooms(d) ==
    LET r0 == IF d.rooms = <<>> /\ d.room # <<>> /\ Strip(d.room) # <<>>
              THEN <<d.room>> ELSE d.rooms
    IN  IF ~Contains(r0, MAIN_ROOM) THEN <<MAIN_ROOM>> \o r0 ELSE r0

\* the normalising loop: strip, skip the empty names, prefix "#"
NormRooms(rooms) ==
    LET stripped == [i \in 1..Len(rooms) |-> Strip(rooms[i])]
        kept     == SelectSeq(stripped, LAMBDA r : r # <<>>)
    IN  [i \in 1..Len(kept) |-> HashPrefix(kept[i])]

\* `active = data.get("active") or legacy_room or MAIN_ROOM`, normalised
JoinActive(d) ==
    LET a0 == IF d.active # <<>> THEN d.active
              ELSE IF d.room # <<>> THEN d.room ELSE MAIN_ROOM
        a1 == IF Strip(a0) = <<>> THEN MAIN_ROOM ELSE a0
    IN  HashPrefix(Strip(a1))

\* the "rooms" value on_join stores in the presence entry
JoinedRooms(norm_rooms) == Take(Dedupe(norm_rooms), ROOMS_CAP)

HandleJoin(sid, d) ==
    LET user       == JoinUser(d)
        norm_rooms == NormRooms(JoinRawRooms(d))
        active     == JoinActive(d)
    IN  /\ room_members' = AddMemberAll(room_members, norm_rooms, sid)
        /\ online' = Put(online, sid,
                         [name |-> user, room |-> active,
                          rooms |-> JoinedRooms(norm_rooms)])
        /\ joined' = [joined EXCEPT ![sid] = "join"]
        /\ out' = << EmitTo("chat_history", sid, <<>>, active),
                     EmitUserList(online'),
                     EmitTo("chat_message", 0, active, active),
                     EmitTo("chat_message", 0, MAIN_ROOM, MAIN_ROOM) >>
        /\ Handled("join", sid, <<>>)
        /\ UNCHANGED conn

on_join(sid, d) == conn[sid] = "active" /\ steps < MaxEvents /\ HandleJoin(sid, d)

(* ------------------------------- leave -------------------------------- *)

\* on_leave without its lobby check
LeaveRefused_Never(room) == FALSE

\* `if room == MAIN_ROOM: return` of on_leave
LeaveRefused(room) == room = MAIN_ROOM

\* the presence entry after on_leave removed `room` from it
LeaveEntry(u, room) ==
    [u EXCEPT !.rooms = Without(u.rooms, room),
              !.room = IF u.room = room THEN MAIN_ROOM ELSE u.room]

HandleLeave(sid, d) ==
    LET room == HashPrefix(Strip(d.room))
    IN  /\ Handled("leave", sid, d.room)
        /\ UNCHANGED <<conn, joined>>
        /\ IF Strip(d.room) = <<>> \/ LeaveRefused(room)
           THEN /\ out' = <<>>
                /\ UNCHANGED <<online, room_members>>
           ELSE /\ room_members' = DiscardMember(room_members, room, sid)
                /\ online' = IF sid \in DOMAIN online
                             THEN [online EXCEPT ![sid] = LeaveEntry(@, room)]
                             ELSE online
                /\ out' = <<EmitUserList(online')>>

on_leave(sid, d) == conn[sid] = "active" /\ steps < MaxEvents /\ HandleLeave(sid, d)

(* ---------------------------- send_message ---------------------------- *)

\* `user = data.get("user") or "guest"`: the name is not stripped here
MsgUser(d) == IF d.user = <<>> THEN GUEST ELSE d.user

\* the room of the message: the payload's, else the sender's active room,
\* else the lobby; stripped and prefixed
MsgRoom(sid, d) ==
    LET r0 == IF d.room # <<>> THEN d.room
              ELSE IF sid \in DOMAIN online /\ online[sid].room # <<>>
                   THEN online[sid].room ELSE MAIN_ROOM
        r1 == IF Strip(r0) = <<>> THEN MAIN_ROOM ELSE Strip(r0)
    IN  HashPrefix(r1)

\* `target = msg[6:].strip()`, prefixed.  msg is stripped and starts with
\* "/join " or "/part ", so the target is never empty and the Usage replies of
\* the two branches cannot be reached.
SlashTarget(msg) == HashPrefix(Strip(Drop(msg, 6)))

\* the presence entry the /join branch stores
SlashJoinEntry(sid, user, target) ==
    LET entry == IF sid \in DOMAIN online THEN online[sid]
                 ELSE [name |-> user, room |-> MAIN_ROOM, rooms |-> <<>>]
        rooms == IF Contains(RoomsOf(entry), target) THEN RoomsOf(entry)
                 ELSE Append(RoomsOf(entry), target)
    IN  [name |-> user, room |-> target, rooms |-> Take(rooms, ROOMS_CAP)]

SlashJoin(sid, user, room, msg) ==
    LET target == SlashTarget(msg)
    IN  /\ StartsWith(msg, JOIN_PREFIX)
        /\ room_members' = AddMember(room_members, target, sid)
        /\ online' = Put(online, sid, SlashJoinEntry(sid, user, target))
        /\ joined' = [joined EXCEPT ![sid] = IF @ = "no" THEN "slash" ELSE @]
        /\ out' = << EmitTo("chat_history", sid, <<>>, target),
                     EmitTo("joined_room", sid, <<>>, target),
                     EmitUserList(online'),
                     EmitRoomUserList(online', target),
                     EmitRoomUserList(online', MAIN_ROOM),
                     EmitTo("chat_message", 0, target, target) >>
        /\ Handled("/join", sid, Drop(msg, 6))
        /\ UNCHANGED conn

\* `if target == MAIN_ROOM:` of the /part branch
PartRefused(target) == target = MAIN_ROOM

\* the presence entry the /part branch stores
SlashPartEntry(sid, user, target) ==
    LET entry == IF sid \in DOMAIN online THEN online[sid]
                 ELSE [name |-> user, room |-> MAIN_ROOM, rooms |-> <<MAIN_ROOM>>]
        rest  == Without(RoomsOf(entry), target)
        rooms == IF ~Contains(rest, MAIN_ROOM) THEN <<MAIN_ROOM>> \o rest ELSE rest
    IN  [name |-> entry.name,
         room |-> IF entry.room = target THEN MAIN_ROOM ELSE entry.room,
         rooms |-> Take(rooms, ROOMS_CAP)]

SlashPart(sid, user, room, msg) ==
    LET target == SlashTarget(msg)
    IN  /\ StartsWith(msg, PART_PREFIX)
        /\ Handled("/part", sid, Drop(msg, 6))
        /\ UNCHANGED conn
        /\ IF PartRefused(target)
           THEN /\ out' = <<EmitTo("chat_message", sid, <<>>, room)>>
                /\ UNCHANGED <<online, room_members, joined>>
           ELSE /\ room_members' = DiscardMember(room_members, target, sid)
                /\ online' = Put(online, sid, SlashPartEntry(sid, user, target))
                /\ joined' = [joined EXCEPT ![sid] = IF @ = "no" THEN "slash" ELSE @]
                /\ out' = << EmitUserList(online'),
                             EmitRoomUserList(online', target),
                             EmitRoomUserList(online', MAIN_ROOM),
                             EmitTo("joined_room", sid, <<>>, online'[sid].room),
                             EmitTo("chat_message", sid, <<>>, room) >>

\* The /join and /part branches of on_send_message.  No home wizard is
\* active for the sender and the message holds no multi-command separator.
HandleSendMessage(sid, d) ==
    LET user == MsgUser(d)
        msg  == Strip(d.msg)
        room == MsgRoom(sid, d)
    IN  /\ msg # <<>>
        /\ \/ SlashJoin(sid, user, room, msg)
           \/ SlashPart(sid, user, room, msg)

on_send_message(sid, d) ==
    conn[sid] = "active" /\ steps < MaxEvents /\ HandleSendMessage(sid, d)

(* --------------------------- direct messages -------------------------- *)

\* the characters of the model's strings, in code point order
Chars ==
    <<" ", "#", "0", "1", "2", "3", "4", "5", "6", "7", "8", "9", ":",
      "a", "b", "c", "d", "e", "f", "g", "h", "i", "j", "k", "l", "m",
      "n", "o", "p", "q", "r", "s", "t", "u", "v", "w", "x", "y", "z">>

Code(c) == CHOOSE i \in 1..Len(Chars) : Chars[i] = c

\* a < b on str: the first differing character decides, and a proper prefix
\* is the smaller
RECURSIVE StrLess(_, _)
StrLess(a, b) ==
    IF b = <<>> THEN FALSE
    ELSE IF a = <<>> THEN TRUE
    ELSE IF Head(a) = Head(b) THEN StrLess(Tail(a), Tail(b))
    ELSE Code(Head(a)) < Code(Head(b))

\* the pair in the order it was given
dm_key_Unsorted(a, b) == <<a, b>>

\* tuple(sorted([a, b]))
dm_key(a, b) == IF StrLess(b, a) THEN <<b, a>> ELSE <<a, b>>

\* a relay group named after the peer alone
dm_room_Peer(a, b) == <<"d", "m", ":">> \o b

\* f"dm:{x}:{y}"
dm_room(a, b) ==
    LET k == dm_key(a, b)
    IN  <<"d", "m", ":">> \o k[1] \o <<":">> \o k[2]

\* _dm_history[key] read as a list; the read of a missing key is empty
Hist(h, key) == IF key \in DOMAIN h THEN h[key] ELSE <<>>

\* what on_dm_open reads for `sid` opening `other`
OpenItems(h, sid, other) == Hist(h, dm_key(SidName(sid), other))

\* `_online.get(sid, {}).get("name", "guest")` for a connection id string
OnlineName(on, name) ==
    IF \E s \in DOMAIN on : SidName(s) = name
    THEN on[CHOOSE s \in DOMAIN on : SidName(s) = name].name
    ELSE GUEST

\* the payloads of the five DM events; a key a payload lacks reads <<>>
Payload(kind, from_sid, from_name, to_sid, to_name, msg, ct, iv, gs, pk) ==
    [kind |-> kind, from_sid |-> from_sid, from_name |-> from_name,
     to_sid |-> to_sid, to_name |-> to_name, msg |-> msg,
     ciphertext_b64 |-> ct, iv_b64 |-> iv, glyphset |-> gs,
     pubkey_jwk |-> pk]

NoPayload == Payload(<<>>, <<>>, <<>>, <<>>, <<>>, <<>>, <<>>, <<>>, <<>>, <<>>)

DmEvent(ev, toSid, toRoom, payload, items) ==
    [ev |-> ev, toSid |-> toSid, toRoom |-> toRoom, payload |-> payload,
     items |-> items]

\* a deque without its maxlen
DequeAppend_Unbounded(h, p) == Append(h, p)

\* deque(maxlen=DM_HISTORY_MAX).append(p)
DequeAppend(h, p) ==
    IF Len(h) >= DM_HISTORY_MAX THEN Append(Tail(h), p) ELSE Append(h, p)

\* a handler that returned at its guard: nothing stored, nothing emitted
DmDropped ==
    /\ dm_out' = <<>>
    /\ UNCHANGED <<dm_history, dm_rooms, dm_seq, dm_sealed>>

\* the state that no DM handler writes
DmFrame ==
    /\ out' = <<>>
    /\ UNCHANGED <<conn, online, room_members, joined>>
    /\ UNCHANGED home_vars

\* the DM state, which the room handlers leave alone
DmIdle ==
    /\ dm_out' = <<>>
    /\ UNCHANGED <<dm_history, dm_rooms, dm_seq, dm_sealed>>

HandleDmOpen(sid, d) ==
    LET me    == SidName(sid)
        other == Strip(d.to_sid)
    IN  /\ DmFrame
        /\ IF other = <<>> \/ other = me
           THEN DmDropped
           ELSE LET key == dm_key(me, other)
                IN  /\ dm_rooms' = [dm_rooms EXCEPT
                                      ![sid] = @ \cup {dm_room(me, other)}]
                    /\ dm_history' = Put(dm_history, key, Hist(dm_history, key))
                    /\ dm_out' = << DmEvent("dm_history", sid, <<>>,
                                     [NoPayload EXCEPT !.to_sid = other],
                                     OpenItems(dm_history, sid, other)) >>
                    /\ UNCHANGED <<dm_seq, dm_sealed>>

on_dm_open(sid, d) ==
    /\ conn[sid] = "active"
    /\ steps < MaxEvents
    /\ HandleDmOpen(sid, d)
    /\ Handled("dm_open", sid, Strip(d.to_sid))

KIND_DM == <<"d", "m">>

KIND_SEALED == <<"s", "e", "a", "l", "e", "d">>

DmPayload(on, sid, to_sid, msg) ==
    Payload(KIND_DM, SidName(sid), OnlineName(on, SidName(sid)),
            to_sid, OnlineName(on, to_sid), msg, <<>>, <<>>, <<>>, <<>>)

HandleDmSend(sid, d) ==
    LET me     == SidName(sid)
        to_sid == Strip(d.to_sid)
        msg    == Strip(d.msg)
    IN  /\ DmFrame
        /\ IF to_sid = <<>> \/ to_sid = me \/ msg = <<>>
           THEN DmDropped
           ELSE LET payload == DmPayload(online, sid, to_sid, msg)
                    key     == dm_key(me, to_sid)
                IN  /\ dm_history' =
                           Put(dm_history, key,
                               DequeAppend(Hist(dm_history, key), payload))
                    /\ dm_out' = << DmEvent("dm_message", 0,
                                     dm_room(me, to_sid), payload, <<>>) >>
                    /\ dm_seq' = dm_seq + 1
                    /\ UNCHANGED <<dm_rooms, dm_sealed>>

on_dm_send(sid, d) ==
    /\ conn[sid] = "active"
    /\ steps < MaxEvents
    /\ HandleDmSend(sid, d)
    /\ Handled("dm_send", sid, Strip(d.to_sid))

\* on_dm_sealed with an append to the pair's history
SealedStore_Appends(h, key, payload) ==
    Put(h, key, DequeAppend(Hist(h, key), payload))

\* _dm_history after on_dm_sealed built its payload: the handler has no
\* statement that writes it
SealedStore(h, key, payload) == h

\* a relay that strips the ciphertext field
SealedPayload_Stripped(on, sid, to_sid, d) ==
    Payload(KIND_SEALED, SidName(sid), OnlineName(on, SidName(sid)),
            to_sid, OnlineName(on, to_sid), <<>>,
            Strip(d.ciphertext_b64), d.iv_b64, d.glyphset, <<>>)

SealedPayload(on, sid, to_sid, d) ==
    Payload(KIND_SEALED, SidName(sid), OnlineName(on, SidName(sid)),
            to_sid, OnlineName(on, to_sid), <<>>,
            d.ciphertext_b64, d.iv_b64, d.glyphset, <<>>)

HandleDmSealed(sid, d) ==
    LET me     == SidName(sid)
        to_sid == Strip(d.to_sid)
    IN  /\ DmFrame
        /\ IF to_sid = <<>> \/ to_sid = me
           THEN DmDropped
           ELSE LET payload == SealedPayload(online, sid, to_sid, d)
                IN  /\ dm_history' =
                           SealedStore(dm_history, dm_key(me, to_sid), payload)
                    /\ dm_out' = << DmEvent("dm_sealed", 0,
                                     dm_room(me, to_sid), payload, <<>>) >>
                    /\ dm_sealed' = dm_sealed \cup {dm_room(me, to_sid)}
                    /\ UNCHANGED <<dm_rooms, dm_seq>>

on_dm_sealed(sid, d) ==
    /\ conn[sid] = "active"
    /\ steps < MaxEvents
    /\ HandleDmSealed(sid, d)
    /\ Handled("dm_sealed", sid, Strip(d.to_sid))

\* the payload of seal_request and of seal_accept: no kind, no to_name
SealPayload(on, sid, to_sid, d) ==
    Payload(<<>>, SidName(sid), OnlineName(on, SidName(sid)),
            to_sid, <<>>, <<>>, <<>>, <<>>, <<>>, d.pubkey_jwk)

\* on_seal_request and on_seal_accept differ in the event name only
HandleSeal(ev, sid, d) ==
    LET me     == SidName(sid)
        to_sid == Strip(d.to_sid)
    IN  /\ DmFrame
        /\ IF to_sid = <<>> \/ to_sid = me
           THEN DmDropped
           ELSE /\ dm_out' = << DmEvent(ev, 0, dm_room(me, to_sid),
                                 SealPayload(online, sid, to_sid, d), <<>>) >>
                /\ UNCHANGED <<dm_history, dm_rooms, dm_seq, dm_sealed>>

on_seal_request(sid, d) ==
    /\ conn[sid] = "active"
    /\ steps < MaxEvents
    /\ HandleSeal("seal_request", sid, d)
    /\ Handled("seal_request", sid, Strip(d.to_sid))

on_seal_accept(sid, d) ==
    /\ conn[sid] = "active"
    /\ steps < MaxEvents
    /\ HandleSeal("seal_accept", sid, d)
    /\ Handled("seal_accept", sid, Strip(d.to_sid))

(* --------------------------- world documents -------------------------- *)

\* str(n) for n >= 0
RECURSIVE Str(_)
Str(n) == IF n < 10 THEN <<Digit[n + 1]>>
                    ELSE Append(Str(n \div 10), Digit[(n % 10) + 1])

\* s[-n:]
LastChars(s, n) == IF Len(s) <= n THEN s ELSE Drop(s, Len(s) - n)

\* _new_home_id() when the clock reads t milliseconds
NewHomeId(t) == LastChars(Str(t), ID_LEN)

\* the home that _ensure_default_home synthesizes
DefaultHome(hid, creator) ==
    [id |-> hid, name |-> <<"World", "Home">>, created_by |-> creator,
     rooms |-> <<>>, doors |-> <<>>]

\* the keys of homes_v2, in insertion order
HomeKeys(st) == [i \in 1..Len(st.homes) |-> st.homes[i].id]

\* `hid in hv2`
HasHome(st, hid) == \E i \in 1..Len(st.homes) : st.homes[i].id = hid

\* hv2.get(hid, {})
HomeAt(st, hid) ==
    IF HasHome(st, hid)
    THEN st.homes[CHOOSE i \in 1..Len(st.homes) : st.homes[i].id = hid]
    ELSE DefaultHome(<<>>, "")

\* hv2[h.id] = h: an existing key keeps its place, a new one goes last
DictSet(homes, h) ==
    IF \E i \in 1..Len(homes) : homes[i].id = h.id
    THEN [i \in 1..Len(homes) |-> IF homes[i].id = h.id THEN h ELSE homes[i]]
    ELSE Append(homes, h)

\* a repair result: the document as the call left it and the id returned
Repaired(st, hid) == [st |-> st, hid |-> hid]

\* _ensure_default_home that synthesizes a home on every call
EnsureDefaultHome_Always(st, creator, t) ==
    Repaired([st EXCEPT !.homes = DictSet(@, DefaultHome(NewHomeId(t), creator)),
                        !.default = NewHomeId(t)],
             NewHomeId(t))

\* _ensure_default_home(st, room, creator) when the clock reads t
EnsureDefaultHome(st, creator, t) ==
    IF st.default # <<>> /\ HasHome(st, st.default)
    THEN Repaired(st, st.default)
    ELSE LET hid == NewHomeId(t)
         IN  Repaired([st EXCEPT !.homes = DictSet(@, DefaultHome(hid, creator)),
                                 !.default = hid],
                      hid)

\* `_get_selected_home_id(st, user) or _st_default_home_id(st)`
PointerOf(st, user) ==
    IF st.selected[user] # <<>> THEN st.selected[user] ELSE st.default

\* _get_active_home(st, room, user) when the clock reads t
GetActiveHome(st, user, t) ==
    LET hid0 == PointerOf(st, user)
        r1 == IF hid0 = <<>> \/ ~HasHome(st, hid0)
              THEN IF st.homes # <<>>
                   THEN Repaired([st EXCEPT !.default = HomeKeys(st)[1]],
                                 HomeKeys(st)[1])
                   ELSE EnsureDefaultHome(st, user, t)
              ELSE Repaired(st, hid0)
    IN  IF r1.hid = <<>> \/ ~HasHome(r1.st, r1.hid)
        THEN EnsureDefaultHome(r1.st, user, t)
        ELSE r1

\* the home command handled last, the id it returned or acted on, whether
\* its handler raised, and whether the command before it was the same one
\* by the same user
Cmd(op, user, frm, to, hid, raised) ==
    [op |-> op, user |-> user, frm |-> frm, to |-> to, hid |-> hid,
     raised |-> raised, msg |-> <<>>, dispatched |-> 0,
     again |-> home_cmd.op = op /\ home_cmd.user = user
               /\ home_cmd.frm = frm /\ home_cmd.to = to]

\* the presence, membership and DM state, which no home code writes
RolesFrame ==
    /\ out' = <<>>
    /\ dm_out' = <<>>
    /\ UNCHANGED <<conn, online, room_members, joined, last, dm_history,
                   dm_rooms, dm_seq, dm_sealed>>
    /\ UNCHANGED <<world_db, loaded, build_toks, inflight>>
    /\ UNCHANGED <<home_wizard, world_wizard>>

HomeFrame == RolesFrame /\ UNCHANGED world_roles

\* the world documents, which the room and DM handlers of the model leave
\* alone
HomeIdle == UNCHANGED home_vars

\* home ids of stored documents: two that homes have and one that none has
ID_A == NewHomeId(T0)

ID_B == <<"4", "2">>

ID_X == <<"9", "9">>

Pointers == {<<>>, ID_A, ID_B, ID_X}

HomeLists ==
    { <<>>,
      << [DefaultHome(ID_A, "al") EXCEPT !.rooms = <<"A">>] >>,
      << DefaultHome(ID_B, "bo"),
         [DefaultHome(ID_A, "al") EXCEPT !.rooms = <<"A">>] >> }

\* documents as a store written by an older version can hold them: the
\* default pointer and al's selected pointer may name a home that is gone
StoredDocs ==
    { [EmptyDoc EXCEPT !.homes = hs, !.default = d, !.selected["al"] = s] :
        hs \in HomeLists, d \in Pointers, s \in Pointers }

\* one call of _get_active_home on the document, dt milliseconds later
GetActiveHomeCall(user, dt) ==
    LET r == GetActiveHome(home_doc, user, now + dt)
    IN  /\ steps < MaxEvents
        /\ steps' = steps + 1
        /\ now' = now + dt
        /\ home_doc' = r.st
        /\ home_cmd' = Cmd("get_active_home", user, "", "", r.hid, FALSE)
        /\ replies' = <<>>
        /\ UNCHANGED <<room_state, world_state>>
        /\ HomeFrame

\* one call of _ensure_default_home on the document
EnsureDefaultHomeCall(user, dt) ==
    LET r == EnsureDefaultHome(home_doc, user, now + dt)
    IN  /\ steps < MaxEvents
        /\ steps' = steps + 1
        /\ now' = now + dt
        /\ home_doc' = r.st
        /\ home_cmd' = Cmd("ensure_default_home", user, "", "", r.hid, FALSE)
        /\ replies' = <<>>
        /\ UNCHANGED <<room_state, world_state>>
        /\ HomeFrame

\* _world_state_by_room[room] after `_save_world_state(room, st)`: the
\* definition bound at run time is the later one, _save_world_state(room),
\* so the call with two arguments raises TypeError before any write
SaveWorldState(ws, st) == ws

\* the end of a router branch that calls _save_world_state(room, st): the
\* reply that follows the call is never emitted
SaveAndRaise(st, op, user, frm, to, hid) ==
    /\ home_doc' = st
    /\ replies' = <<>>
    /\ world_state' = SaveWorldState(world_state, st)
    /\ home_cmd' = Cmd(op, user, frm, to, hid, TRUE)
    /\ UNCHANGED room_state

\* the end of a router branch that replies and returns
ReplyAndReturn(st, op, user, hid, reply) ==
    /\ home_doc' = st
    /\ replies' = <<reply>>
    /\ home_cmd' = Cmd(op, user, "", "", hid, FALSE)
    /\ UNCHANGED <<room_state, world_state>>

\* one more event of an active connection, within the budget of the model
HomeEvent(sid, dt) ==
    /\ steps < MaxEvents
    /\ conn[sid] = "active"
    /\ steps' = steps + 1
    /\ now' = now + dt
    /\ HomeFrame

\* `st = _load_world_state(room) or {}`: _load_world_state returns None on
\* every path, so the router starts from an empty document
RouterDoc == EmptyDoc

\* s.lstrip("#")
RECURSIVE LStripHash(_)
LStripHash(s) ==
    IF s # <<>> /\ Head(s) = "#" THEN LStripHash(Tail(s)) ELSE s

\* !home create "txt"
HomeCreate(sid, user, dt) ==
    LET st0 == RouterDoc
        hid == NewHomeId(now + dt)
        home == [DefaultHome(hid, user) EXCEPT !.name = <<"txt">>]
        st1 == [st0 EXCEPT !.homes = DictSet(@, home),
                           !.default = IF @ = <<>> THEN hid ELSE @,
                           !.selected[user] = hid]
    IN  /\ HomeEvent(sid, dt)
        /\ SaveAndRaise(st1, "create", user, "", "", hid)

\* !home select <id>
HomeSelect(sid, user, arg) ==
    LET st0 == RouterDoc
        hid == LStripHash(Strip(arg))
    IN  /\ HomeEvent(sid, EVENT_MS)
        /\ IF hid = <<>> \/ ~HasHome(st0, hid)
           THEN ReplyAndReturn(st0, "select", user, hid,
                               Reply("usage", "sid", "hub"))
           ELSE SaveAndRaise([st0 EXCEPT !.selected[user] = hid],
                             "select", user, "", "", hid)

\* hv2.pop(hid, None)
DictPop(homes, hid) == SelectSeq(homes, LAMBDA h : h.id # hid)

\* the pointers after `!home remove` popped hid
RemoveHome(st, hid) ==
    LET homes == DictPop(st.homes, hid)
        dflt  == IF st.default = hid
                 THEN IF homes = <<>> THEN <<>> ELSE homes[1].id
                 ELSE st.default
    IN  [st EXCEPT !.homes = homes,
                   !.default = dflt,
                   !.selected = [u \in HomeUsers |->
                                   IF st.selected[u] = hid THEN dflt
                                                            ELSE st.selected[u]]]

\* "@" + (user or ""), a name being one unit of the model's role strings
AtName(user) == <<"@", user>>

\* `roles.get("owner") == "@" + user or "@" + user in roles.get("helpers")`
IsManager(roles, user) ==
    roles.owner = AtName(user) \/ Contains(roles.helpers, AtName(user))

\* !home remove <id>
\* _is_world_owner(room, user); the names of the model are in lower case
IsWorldOwner(roles, user) == roles.owner = <<user>>

\* target.lstrip("@")
RECURSIVE LStripAt(_)
LStripAt(s) ==
    IF s # <<>> /\ Head(s) = "@" THEN LStripAt(Tail(s)) ELSE s

\* ",".join(helpers_list) on names written as sequences of units
RECURSIVE JoinCsv(_)
JoinCsv(list) ==
    IF list = <<>> THEN <<>>
    ELSE IF Len(list) = 1 THEN list[1]
    ELSE list[1] \o <<",">> \o JoinCsv(Tail(list))

\* [h for h in helpers.split(",") if h]
RECURSIVE SplitCsv(_)
SplitCsv(csv) ==
    IF ~Contains(csv, ",")
    THEN IF csv = <<>> THEN <<>> ELSE <<csv>>
    ELSE LET i == IndexOf(csv, ",")
             rest == SplitCsv(SubSeq(csv, i + 1, Len(csv)))
         IN  IF i = 1 THEN rest ELSE <<SubSeq(csv, 1, i - 1)>> \o rest

\* _get_world_roles(room) after _set_world_roles(room, owner, helpers_list):
\* the helpers are stored as one comma-separated string
SetWorldRoles(owner, helpers_list) ==
    [owner |-> owner, helpers |-> SplitCsv(JoinCsv(helpers_list))]

\* `!world claim`: the sender's name, as it is, becomes the owner of a
\* room that has none
WorldClaim(sid, user) ==
    /\ steps < MaxEvents
    /\ conn[sid] = "active"
    /\ steps' = steps + 1
    /\ now' = now + EVENT_MS
    /\ RolesFrame
    /\ IF world_roles.owner # <<>>
       THEN /\ world_roles' = world_roles
            /\ replies' = <<Reply("owner_set", "sid", "hub")>>
       ELSE /\ world_roles' = SetWorldRoles(<<user>>, <<>>)
            /\ replies' = <<Reply("claimed", "room", "hub")>>
    /\ home_cmd' = Cmd("claim", user, "", "", <<>>, FALSE)
    /\ UNCHANGED <<room_state, world_state, home_doc>>

\* `!world addhelper <target>`: the owner adds the target, without its
\* leading "@", to the helpers
WorldAddHelper(sid, user, arg) ==
    LET target == LStripAt(arg)
    IN  /\ steps < MaxEvents
        /\ conn[sid] = "active"
        /\ steps' = steps + 1
        /\ now' = now + EVENT_MS
        /\ RolesFrame
        /\ IF target = <<>>
           THEN /\ world_roles' = world_roles
                /\ replies' = <<Reply("usage", "sid", "hub")>>
           ELSE IF world_roles.owner = <<>>
           THEN /\ world_roles' = world_roles
                /\ replies' = <<Reply("no_owner", "sid", "hub")>>
           ELSE IF ~IsWorldOwner(world_roles, user)
           THEN /\ world_roles' = world_roles
                /\ replies' = <<Reply("denied", "sid", "hub")>>
           ELSE /\ world_roles' =
                       SetWorldRoles(world_roles.owner,
                                     IF Contains(world_roles.helpers, target)
                                     THEN world_roles.helpers
                                     ELSE Append(world_roles.helpers, target))
                /\ replies' = <<Reply("helper_added", "room", "hub")>>
        /\ home_cmd' = Cmd("addhelper", user, "", "", <<>>, FALSE)
        /\ UNCHANGED <<room_state, world_state, home_doc>>

\* `!world delhelper <target>`: the owner takes the target off the helpers
WorldDelHelper(sid, user, arg) ==
    LET target == LStripAt(arg)
    IN  /\ steps < MaxEvents
        /\ conn[sid] = "active"
        /\ steps' = steps + 1
        /\ now' = now + EVENT_MS
        /\ RolesFrame
        /\ IF target = <<>>
           THEN /\ world_roles' = world_roles
                /\ replies' = <<Reply("usage", "sid", "hub")>>
           ELSE IF world_roles.owner = <<>>
           THEN /\ world_roles' = world_roles
                /\ replies' = <<Reply("no_owner", "sid", "hub")>>
           ELSE IF ~IsWorldOwner(world_roles, user)
           THEN /\ world_roles' = world_roles
                /\ replies' = <<Reply("denied", "sid", "hub")>>
           ELSE /\ world_roles' =
                       SetWorldRoles(world_roles.owner,
                                     Without(world_roles.helpers, target))
                /\ replies' = <<Reply("helper_removed", "room", "hub")>>
        /\ home_cmd' = Cmd("delhelper", user, "", "", <<>>, FALSE)
        /\ UNCHANGED <<room_state, world_state, home_doc>>

\* `!world claim` up to `roles = _get_world_roles(room)`; no lock is held
\* between this read and the write that follows it
BeginClaim(h, sid, user) ==
    /\ steps < MaxEvents
    /\ conn[sid] = "active"
    /\ inflight[h].op = "none"
    /\ steps' = steps + 1
    /\ now' = now + EVENT_MS
    /\ inflight' = [inflight EXCEPT ![h] =
                       [Idle EXCEPT !.op = "claim", !.user = user,
                                    !.roles = world_roles]]
    /\ home_cmd' = Cmd("get_world_roles", user, "", "", <<>>, FALSE)
    /\ replies' = <<>>
    /\ out' = <<>>
    /\ dm_out' = <<>>
    /\ UNCHANGED <<conn, online, room_members, joined, last, dm_history,
                   dm_rooms, dm_seq, dm_sealed>>
    /\ UNCHANGED <<room_state, world_state, home_doc, world_db, loaded,
                   build_toks>>
    /\ UNCHANGED <<home_wizard, world_wizard, world_roles>>

\* the rest of `!world claim`: the test of the owner that was read, and
\* _set_world_roles(room, user, [])
EndClaim(h) ==
    /\ steps < MaxEvents
    /\ inflight[h].op = "claim"
    /\ steps' = steps + 1
    /\ now' = now + EVENT_MS
    /\ inflight' = [inflight EXCEPT ![h] = Idle]
    /\ IF inflight[h].roles.owner # <<>>
       THEN /\ world_roles' = world_roles
            /\ replies' = <<Reply("owner_set", "sid", "hub")>>
       ELSE /\ world_roles' = SetWorldRoles(<<inflight[h].user>>, <<>>)
            /\ replies' = <<Reply("claimed", "room", "hub")>>
    /\ home_cmd' = Cmd("claim", inflight[h].user, "", "", <<>>, FALSE)
    /\ out' = <<>>
    /\ dm_out' = <<>>
    /\ UNCHANGED <<conn, online, room_members, joined, last, dm_history,
                   dm_rooms, dm_seq, dm_sealed>>
    /\ UNCHANGED <<room_state, world_state, home_doc, world_db, loaded,
                   build_toks>>
    /\ UNCHANGED <<home_wizard, world_wizard>>

HomeRemove(sid, user, arg) ==
    LET st0 == RouterDoc
        hid == LStripHash(Strip(arg))
        is_manager == IsManager(world_roles, user)
    IN  /\ HomeEvent(sid, EVENT_MS)
        /\ IF hid = <<>> \/ ~HasHome(st0, hid)
           THEN ReplyAndReturn(st0, "remove", user, hid,
                               Reply("usage", "sid", "hub"))
           ELSE IF HomeAt(st0, hid).created_by # user /\ ~is_manager
                THEN ReplyAndReturn(st0, "remove", user, hid,
                                    Reply("denied", "sid", "hub"))
                ELSE SaveAndRaise(RemoveHome(st0, hid),
                                  "remove", user, "", "", hid)

\* !home show
HomeShow(sid, user, dt) ==
    LET r == GetActiveHome(RouterDoc, user, now + dt)
    IN  /\ HomeEvent(sid, dt)
        /\ ReplyAndReturn(r.st, "show", user, r.hid,
                          Reply("show", "room", "hub"))

\* the document after the router appended the door to the active home
RouterDoorAdd(st, hid, frm, to) ==
    LET home == HomeAt(st, hid)
    IN  [st EXCEPT !.homes =
            DictSet(@, [home EXCEPT !.doors = Append(@, <<frm, to>>)])]

\* !home door add --from frm --to to
HomeDoorAdd(sid, user, frm, to, dt) ==
    LET r == GetActiveHome(RouterDoc, user, now + dt)
    IN  /\ HomeEvent(sid, dt)
        /\ SaveAndRaise(RouterDoorAdd(r.st, r.hid, frm, to),
                        "door_add", user, frm, to, r.hid)

\* _get_flag(args, name, None): the value, <<>> for None, and the args as
\* the call leaves them, without the flag and the value it took
GetFlag(args, name) ==
    IF ~Contains(args, name)
    THEN [val |-> <<>>, args |-> args]
    ELSE LET idx == IndexOf(args, name)
         IN  IF idx + 1 <= Len(args)
             THEN [val  |-> <<args[idx + 1]>>,
                   args |-> SubSeq(args, 1, idx - 1)
                            \o SubSeq(args, idx + 2, Len(args))]
             ELSE [val |-> <<>>, args |-> SubSeq(args, 1, idx - 1)]

\* int(re.sub(r"[^0-9]", "", word)) on the words of the model, -1 for a
\* word without a digit
DigitsOf(word) ==
    CASE word = "0" -> 0
      [] word = "1" -> 1
      [] word = "2" -> 2
      [] word = "3" -> 3
      [] word = "4" -> 4
      [] word = "5" -> 5
      [] word = "6" -> 6
      [] word = "7" -> 7
      [] word = "8" -> 8
      [] word = "9" -> 9
      [] word = "-1" -> 1
      [] OTHER -> -1

\* _intval(x, default) of _home_build
IntVal(x, default) ==
    IF x = <<>> \/ DigitsOf(x[1]) < 0 THEN default ELSE DigitsOf(x[1])

Max(a, b) == IF a >= b THEN a ELSE b

\* the flags as _home_build reads them, one _get_flag after the other
BuildFlags(toks) ==
    LET n  == GetFlag(toks, "--name")
        b  == GetFlag(n.args, "--bedrooms")
        ba == GetFlag(b.args, "--bathrooms")
        k  == GetFlag(ba.args, "--kitchen")
        t  == GetFlag(k.args, "--total_rooms")
        bedrooms  == IntVal(b.val, 0)
        bathrooms == IntVal(ba.val, 0)
        kitchens  == IntVal(k.val, 1)
        total     == IntVal(t.val, 0)
    IN  [name        |-> IF n.val = <<>> THEN <<"Untitled", "Home">> ELSE n.val,
         bedrooms    |-> bedrooms,
         bathrooms   |-> bathrooms,
         kitchens    |-> kitchens,
         total_rooms |-> IF total <= 0
                         THEN 1 + Max(1, kitchens) + bedrooms + bathrooms + 2
                         ELSE total]

FOYER == "Entry Foyer"

\* "Kitchen" if i == 0 else f"Kitchen {i+1}", and the like
KITCHENS == <<"Kitchen", "Kitchen 2", "Kitchen 3", "Kitchen 4", "Kitchen 5">>

BEDROOMS == <<"Bedroom", "Bedroom 2", "Bedroom 3", "Bedroom 4", "Bedroom 5">>

BATHROOMS ==
    <<"Bathroom", "Bathroom 2", "Bathroom 3", "Bathroom 4", "Bathroom 5">>

FILLERS ==
    <<"Library", "Lounge", "Observatory", "Workshop", "Garden Atrium",
      "Meditation Hall", "Arcade Nook", "Studio", "Sanctum", "Portal Chamber",
      "Dining Hall", "Gallery", "Bathhouse", "Sunroom", "Map Room">>

\* random.shuffle(fillers): two of the orders it can leave
FillerOrders == {FILLERS, [i \in 1..Len(FILLERS) |-> FILLERS[Len(FILLERS) + 1 - i]]}

\* the foyer, the kitchens, the bedrooms and the bathrooms
Generated(f) ==
    <<FOYER>> \o SubSeq(KITCHENS, 1, Max(1, f.kitchens))
              \o SubSeq(BEDROOMS, 1, f.bedrooms)
              \o SubSeq(BATHROOMS, 1, f.bathrooms)

\* a builder that never adds a themed room
FillRooms_None(generated, total, fillers) == generated

\* `while len(generated) < total_rooms: ... fillers.pop(0)`; the totals of
\* the model never use up the fifteen fillers
FillRooms(generated, total, fillers) ==
    IF Len(generated) >= total
    THEN generated
    ELSE generated \o SubSeq(fillers, 1, total - Len(generated))

\* generated[:total_rooms]
FirstN(s, n) == IF Len(s) <= n THEN s ELSE SubSeq(s, 1, n)

\* the home that _home_build generates from the flags: its rooms, and an
\* archway from the foyer to each other room
BuiltHome(hid, user, f, fillers) ==
    LET rooms == FirstN(FillRooms(Generated(f), f.total_rooms, fillers),
                        f.total_rooms)
    IN  [id |-> hid, name |-> f.name, created_by |-> user,
         rooms |-> rooms,
         doors |-> [i \in 1..(Len(rooms) - 1) |-> <<FOYER, rooms[i + 1]>>]]

\* a builder that sets the pointers and forgets to store the home
BuildStore_Skip(homes, base) == homes

\* `hv2[hid] = base` of _home_build
BuildStore(homes, base) == DictSet(homes, base)

\* the document that _home_build leaves: the clock reads t1 in
\* _ensure_default_home and t2 in the _new_home_id of the new home
HomeBuildDoc(st, user, f, fillers, t1, t2) ==
    LET st1 == EnsureDefaultHome(st, user, t1).st
        hid == NewHomeId(t2)
    IN  [st1 EXCEPT !.homes = BuildStore(@, BuiltHome(hid, user, f, fillers)),
                    !.default = hid,
                    !.selected[user] = hid]

\* !home build <build_toks>
HomeBuild(sid, user, dt1, dt2) ==
    \E fillers \in FillerOrders :
        LET st == HomeBuildDoc(room_state, user, BuildFlags(build_toks),
                               fillers, now + dt1, now + dt1 + dt2)
        IN  /\ HomeEvent(sid, dt1 + dt2)
            /\ room_state' = st
            /\ home_doc' = st
            /\ home_cmd' = Cmd("build", user, "", "", st.default, FALSE)
            /\ replies' = <<Reply("built", "room", "hub")>>
            /\ UNCHANGED world_state

\* !home build <build_toks> when the write of STATE_FILE fails: _save_json
\* raises OSError inside set_room_state, and nothing between it and the
\* socket handler catches it
HomeBuildWriteFails(sid, user) ==
    /\ HomeEvent(sid, 2 * EVENT_MS)
    /\ home_doc' = HomeBuildDoc(room_state, user, BuildFlags(build_toks),
                                FILLERS, now + EVENT_MS, now + 2 * EVENT_MS)
    /\ home_cmd' = Cmd("build_oserror", user, "", "", <<>>, TRUE)
    /\ replies' = <<>>
    /\ UNCHANGED <<room_state, world_state>>

\* str.lower() on the characters of the model's command words
Lower(s) == [i \in 1..Len(s) |-> IF s[i] = "H" THEN "h" ELSE s[i]]

HOME_WORD == <<"!", "h", "o", "m", "e">>

\* the first word of a door command: as documented, and capitalised
DoorWords == {HOME_WORD, <<"!", "H", "o", "m", "e">>}

\* on_send_message hands the message to the home router
RouterTakes(word) == StartsWith(word, HOME_WORD)

\* maybe_run_bot hands the message to its `!home` branch
BotTakes(word) == Lower(word) = HOME_WORD

\* st["home"] after _home_door_add added the endpoints that were missing
WithEndpoints(h, frm, to) ==
    LET r1 == IF Contains(h.rooms, frm) THEN h.rooms ELSE Append(h.rooms, frm)
    IN  [h EXCEPT !.rooms = IF Contains(h.rooms, to) THEN r1
                                                      ELSE Append(r1, to)]

\* _home_door_add(room, args): the document it stores, if it stores one
HomeDoorAddLegacy(st, frm, to) ==
    IF Contains(st.home.doors, <<frm, to>>)
    THEN st
    ELSE [st EXCEPT !.home = [WithEndpoints(@, frm, to)
                                 EXCEPT !.doors = Append(@, <<frm, to>>)]]

\* a door command whose first word the router does not match and the bot
\* does: it runs _home_door_add on the document of STATE_FILE
BotHomeDoorAdd(sid, user, frm, to, dt) ==
    LET st == HomeDoorAddLegacy(room_state, frm, to)
    IN  /\ HomeEvent(sid, dt)
        /\ room_state' = st
        /\ home_doc' = st
        /\ home_cmd' = Cmd("bot_door_add", user, frm, to, <<>>, FALSE)
        /\ replies' = <<Reply("chat", "room", user),
                        Reply("door", "room", BOT_NAME)>>
        /\ UNCHANGED world_state

\* `<word> door add --from frm --to to` sent as a chat message
DoorCommand(sid, user, word, frm, to, dt) ==
    IF RouterTakes(word)
    THEN HomeDoorAdd(sid, user, frm, to, dt)
    ELSE BotTakes(word) /\ BotHomeDoorAdd(sid, user, frm, to, dt)

\* _home_add(room, args): the document it stores, if it stores one
HomeAddLegacy(st, name) ==
    IF Contains(st.home.rooms, name)
    THEN st
    ELSE [st EXCEPT !.home.rooms = Append(@, name)]

\* A handler that changes the document of STATE_FILE holds _state_lock
\* inside get_room_state and again inside set_room_state, and not in
\* between; handlers of different events run in threads of their own.
\* Its first half: `st = get_room_state(room)` and the change made to st.
BeginMutate(h, sid, user, op, doc) ==
    /\ steps < MaxEvents
    /\ conn[sid] = "active"
    /\ inflight[h].op = "none"
    /\ steps' = steps + 1
    /\ now' = now + EVENT_MS
    /\ inflight' = [inflight EXCEPT ![h] =
                       [Idle EXCEPT !.op = op, !.user = user,
                                    !.doc = doc]]
    /\ home_doc' = doc
    /\ home_cmd' = Cmd("get_room_state", user, "", "", <<>>, FALSE)
    /\ replies' = <<Reply("chat", "room", user)>>
    /\ out' = <<>>
    /\ dm_out' = <<>>
    /\ UNCHANGED <<conn, online, room_members, joined, last, dm_history,
                   dm_rooms, dm_seq, dm_sealed>>
    /\ UNCHANGED <<room_state, world_state, world_db, loaded, build_toks>>
    /\ UNCHANGED <<home_wizard, world_wizard, world_roles>>

\* `<word> add <name>` left to maybe_run_bot, up to the change of st
BeginHomeAdd(h, sid, user, name) ==
    BeginMutate(h, sid, user, "home_add", HomeAddLegacy(room_state, name))

\* `<word> door add --from frm --to to` left to maybe_run_bot, up to the
\* change of st
BeginDoorAdd(h, sid, user, frm, to) ==
    BeginMutate(h, sid, user, "door_add", HomeDoorAddLegacy(room_state, frm, to))

\* the second half: set_room_state(room, st) and the bot's answer
EndMutate(h) ==
    /\ steps < MaxEvents
    /\ inflight[h].op \in {"home_add", "door_add"}
    /\ steps' = steps + 1
    /\ now' = now + EVENT_MS
    /\ room_state' = inflight[h].doc
    /\ home_doc' = inflight[h].doc
    /\ inflight' = [inflight EXCEPT ![h] = Idle]
    /\ home_cmd' = Cmd("set_room_state", inflight[h].user, "", "", <<>>,
                       FALSE)
    /\ replies' = <<Reply(inflight[h].op, "room", BOT_NAME)>>
    /\ out' = <<>>
    /\ dm_out' = <<>>
    /\ UNCHANGED <<conn, online, room_members, joined, last, dm_history,
                   dm_rooms, dm_seq, dm_sealed>>
    /\ UNCHANGED <<world_state, world_db, loaded, build_toks>>
    /\ UNCHANGED <<home_wizard, world_wizard, world_roles>>

(* ---------------------------- document store -------------------------- *)

\* _default_world_state(): no homes_v2, no default and no selected pointer
DefaultWorldState == EmptyDoc

\* `st[k] = v` of the merge for one key; the model writes a key that a
\* document lacks as the empty value, and the merge skips such a key
MergeKey(old, new, missing) == IF new = missing THEN old ELSE new

\* `for k, v in data.items(): st[k] = v` on _world_state_by_room[room]
Merge(st, data) ==
    [homes    |-> MergeKey(st.homes, data.homes, <<>>),
     default  |-> MergeKey(st.default, data.default, <<>>),
     selected |-> MergeKey(st.selected, data.selected, EmptyDoc.selected),
     home     |-> MergeKey(st.home, data.home, EmptyDoc.home),
     world    |-> MergeKey(st.world, data.world, <<>>)]

\* _world_state_by_room[room] after _load_world_state(room): without a
\* row the function returns before the merge
LoadWorldState(ws, db) == IF db = <<>> THEN ws ELSE Merge(ws, db[1])

\* what _load_world_state(room) returns: no path has a return value
LoadReturn(ws, db) == <<>>

\* the row after `_save_world_state(room, st)`: the TypeError of the call
\* (see SaveWorldState) comes before the INSERT
SaveWorldRow(db, st) == db

\* one call `_save_world_state(room, st)` as the callers write it
SaveWorldStateCall(st) ==
    /\ steps < MaxEvents
    /\ steps' = steps + 1
    /\ home_doc' = st
    /\ world_state' = SaveWorldState(world_state, st)
    /\ world_db' = SaveWorldRow(world_db, st)
    /\ home_cmd' = Cmd("save_world_state", "", "", "", <<>>, TRUE)
    /\ out' = <<>>
    /\ dm_out' = <<>>
    /\ UNCHANGED <<conn, online, room_members, joined, last, dm_history,
                   dm_rooms, dm_seq, dm_sealed>>
    /\ UNCHANGED <<room_state, now, loaded, build_toks, inflight>>
    /\ UNCHANGED <<home_wizard, world_wizard, world_roles>>
    /\ replies' = <<>>

\* one `st = _load_world_state(room)`
LoadWorldStateCall ==
    /\ steps < MaxEvents
    /\ steps' = steps + 1
    /\ world_state' = LoadWorldState(world_state, world_db)
    /\ loaded' = LoadReturn(world_state, world_db)
    /\ home_cmd' = Cmd("load_world_state", "", "", "", <<>>, FALSE)
    /\ out' = <<>>
    /\ dm_out' = <<>>
    /\ UNCHANGED <<conn, online, room_members, joined, last, dm_history,
                   dm_rooms, dm_seq, dm_sealed>>
    /\ UNCHANGED <<room_state, home_doc, now, world_db, build_toks,
                   inflight>>
    /\ UNCHANGED <<home_wizard, world_wizard, world_roles>>
    /\ replies' = <<>>

(* ------------------------------ dispatcher ---------------------------- *)

\* A chat text is the sequence of its words (msg.split()); the separator
\* of a button row stands between words, as in "!map * !users".  The
\* source's separator is the bullet character, written here as "*".
SEP == "*"

\* a word that shlex.split cannot close: a lone double quote
QUOTE == "\""

\* str(user).strip().lower() on the names of the model
Key(user) == IF user = "Ghost-Bot" THEN BOT_NAME ELSE user

\* s.startswith(prefix), word by word
StartsWithWords(s, prefix) ==
    Len(prefix) <= Len(s) /\ SubSeq(s, 1, Len(prefix)) = prefix

\* msg.startswith("!") on the words of the model
StartsBang(msg) ==
    msg # <<>> /\ msg[1] \in {"!frobnicate", "!users", "!build", "!home", "!map"}

\* `sep in msg and msg.lstrip().startswith('!')`
IsBatch(msg) == Contains(msg, SEP) /\ StartsBang(msg)

\* [p.strip() for p in msg.split(sep) if p.strip()]
RECURSIVE Parts(_)
Parts(msg) ==
    IF ~Contains(msg, SEP)
    THEN IF msg = <<>> THEN <<>> ELSE <<msg>>
    ELSE LET i == IndexOf(msg, SEP)
             rest == Parts(SubSeq(msg, i + 1, Len(msg)))
         IN  IF i = 1 THEN rest ELSE <<SubSeq(msg, 1, i - 1)>> \o rest

\* what one dispatch works on: the two wizard tables, the room's document
\* of STATE_FILE, the clock, the chat messages emitted so far, whether
\* an exception is on its way out of the handler, and the number of texts
\* that on_send_message has dispatched for the event
Bot(hw, ww, rs, t) ==
    [hw |-> hw, ww |-> ww, rs |-> rs, t |-> t, replies |-> <<>>,
     raised |-> FALSE, dispatched |-> 0]

\* emit("chat_message", ...) of a handler
Emit(b, kind, to, sender) ==
    [b EXCEPT !.replies = Append(@, Reply(kind, to, sender))]

\* int(str(val).strip()) on the words of the model: the digits
IsNumber(msg) ==
    Len(msg) = 1
    /\ msg[1] \in {"0", "1", "2", "3", "4", "5", "6", "7", "8", "9"}

\* clamp_int(val, lo, hi, default) of _home_wizard_handle
ClampInt(msg, lo, hi, default) ==
    IF ~IsNumber(msg)
    THEN default
    ELSE LET n == DigitsOf(msg[1])
         IN  IF n < lo THEN lo ELSE IF n > hi THEN hi ELSE n

\* the answers that the model's documents have a place for, by step: the
\* name, and the bedroom, bathroom, kitchen and total room counts
StepData(data, step, msg) ==
    CASE step = 1 -> [data EXCEPT !.name = msg]
      [] step = 3 -> [data EXCEPT !.bedrooms = ClampInt(msg, 0, 30, 3)]
      [] step = 4 -> [data EXCEPT !.bathrooms = ClampInt(msg, 0, 30, 2)]
      [] step = 5 -> [data EXCEPT !.kitchen = ClampInt(msg, 0, 5, 1)]
      [] step = 6 -> [data EXCEPT !.total_rooms = ClampInt(msg, 1, 30, 8)]
      [] OTHER -> data

HOME_STEPS == 9

\* the flags that _home_build reads back from the args that
\* _home_wizard_finish writes, each flag once with its value
WizardFlags(data) ==
    [name        |-> data.name,
     bedrooms    |-> data.bedrooms,
     bathrooms   |-> data.bathrooms,
     kitchens    |-> data.kitchen,
     total_rooms |-> IF data.total_rooms <= 0
                     THEN 1 + Max(1, data.kitchen) + data.bedrooms
                          + data.bathrooms + 2
                     ELSE data.total_rooms]

\* _home_wizard_handle(room, user, msg) for a user with an entry in
\* _HOME_WIZARD, and the _emit_chat of its response
HomeWizardHandle(b, user, msg, fillers) ==
    LET k == Key(user)
        w == b.hw[k]
    IN  IF msg = <<"cancel">>
        THEN Emit([b EXCEPT !.hw[k] = NoWizard], "wizard", "room", "hub")
        ELSE IF w.step < HOME_STEPS
        THEN Emit([b EXCEPT !.hw[k] = [step |-> w.step + 1,
                                       data |-> StepData(w.data, w.step, msg)]],
                  "wizard", "room", "hub")
        ELSE Emit([b EXCEPT !.hw[k] = NoWizard,
                            !.rs = HomeBuildDoc(@, user, WizardFlags(w.data),
                                                fillers, b.t + EVENT_MS,
                                                b.t + 2 * EVENT_MS),
                            !.t = @ + 2 * EVENT_MS],
                  "wizard", "room", "hub")

\* _home_wizard_start(room, user)
HomeWizardStart(b, user) ==
    [b EXCEPT !.hw[Key(user)] = [step |-> 1, data |-> NoData]]

WORLD_STEPS == 9

\* _world_wizard_handle(room, user, msg) for a user with an entry in
\* _WORLD_WIZARD, and the _bot_emit of its response; the last answer runs
\* _build_world, which stores the world under the name given first
WorldWizardHandle(b, user, msg) ==
    LET k == Key(user)
        w == b.ww[k]
    IN  IF msg = <<"cancel">>
        THEN Emit([b EXCEPT !.ww[k] = NoWorldWizard],
                  "wizard", "room", BOT_NAME)
        ELSE IF w.step < WORLD_STEPS
        THEN Emit([b EXCEPT !.ww[k] =
                      [step |-> w.step + 1,
                       name |-> IF w.step = 1 THEN msg ELSE w.name]],
                  "wizard", "room", BOT_NAME)
        ELSE Emit([b EXCEPT !.ww[k] = NoWorldWizard, !.rs.world = w.name],
                  "wizard", "room", BOT_NAME)

\* maybe_run_bot(room, user, msg) for a text without the separator
\* `(user or "").strip().lower() == BOT_NAME.lower()`
IsBotAuthor_Never(user) == FALSE

IsBotAuthor(user) == Key(user) = BOT_NAME

MaybeRunBotOne_Silent(b, user, msg, fillers) == b

\* maybe_run_bot(room, user, msg) for a text without the separator
MaybeRunBotOne(b, user, msg, fillers) ==
    IF b.ww[Key(user)].step > 0 /\ ~StartsWithWords(msg, <<"!build", "world">>)
    THEN WorldWizardHandle(b, user, msg)
    ELSE IF ~StartsBang(msg)
    THEN b
    ELSE IF IsBotAuthor(user)
    THEN b
    ELSE IF Contains(msg, QUOTE)
    THEN Emit(b, "parse_error", "room", BOT_NAME)
    ELSE IF msg[1] = "!users"
    THEN Emit(b, "users", "room", BOT_NAME)
    ELSE IF msg[1] = "!build"
    THEN IF Len(msg) >= 2 /\ msg[2] = "world"
         THEN IF Len(msg) = 2
              THEN Emit([b EXCEPT !.ww[Key(user)] =
                            [step |-> 1, name |-> <<>>]],
                        "wizard", "room", BOT_NAME)
              ELSE Emit([b EXCEPT !.rs.world = <<"Unnamed", "World">>],
                        "world_built", "room", BOT_NAME)
         ELSE IF Len(msg) >= 2 /\ msg[2] = "home"
         THEN Emit([b EXCEPT !.rs = HomeBuildDoc(@, user,
                                        BuildFlags(SubSeq(msg, 3, Len(msg))),
                                        fillers, b.t + EVENT_MS,
                                        b.t + 2 * EVENT_MS),
                             !.t = @ + 2 * EVENT_MS],
                   "built", "room", BOT_NAME)
         ELSE Emit(b, "usage", "room", BOT_NAME)
    ELSE Emit(b, "unknown", "room", BOT_NAME)

\* `for part in parts: maybe_run_bot(room, user, part)`
RECURSIVE MaybeRunBotParts(_, _, _, _)
MaybeRunBotParts(b, user, parts, fillers) ==
    IF parts = <<>>
    THEN b
    ELSE MaybeRunBotParts(MaybeRunBotOne(b, user, Head(parts), fillers),
                          user, Tail(parts), fillers)

\* maybe_run_bot(room, user, msg)
MaybeRunBot(b, user, msg, fillers) ==
    IF IsBatch(msg)
    THEN MaybeRunBotParts(b, user, Parts(msg), fillers)
    ELSE MaybeRunBotOne(b, user, msg, fillers)

\* an exception leaves the handler
Raise(b) == [b EXCEPT !.raised = TRUE]

\* the build branch of the home router for the words after `!home build`;
\* the words of the model name no preset
RouterBuild(b, user, toks, fillers) ==
    IF Contains(toks, QUOTE)
    THEN Raise(b)
    ELSE IF toks = <<>>
    THEN Emit(HomeWizardStart(b, user), "wizard", "room", "hub")
    ELSE IF Contains(toks, "--format")
    THEN Emit(b, "usage", "room", "hub")
    ELSE Emit([b EXCEPT !.rs = HomeBuildDoc(@, user, BuildFlags(toks), fillers,
                                            b.t + EVENT_MS, b.t + 2 * EVENT_MS),
                        !.t = @ + 2 * EVENT_MS],
              "built", "room", "hub")

\* the home router of on_send_message, by what it emits: the document it
\* works on is RouterDoc, which no branch can store (see SaveWorldState),
\* so select and remove find no home, and create, room add and door add
\* raise at their _save_world_state(room, st)
Router(b, user, msg, fillers) ==
    LET parts == IF msg[1] = "!map" \/ Len(msg) = 1
                 THEN <<"!home", "show">> ELSE msg
        cmd == parts[2]
        rest == SubSeq(parts, 3, Len(parts))
    IN  CASE cmd = "create" ->
               IF rest = <<>> THEN Emit(b, "usage", "sid", "hub") ELSE Raise(b)
          [] cmd \in {"select", "remove"} -> Emit(b, "usage", "sid", "hub")
          [] cmd \in {"list", "all", "mine"} -> Emit(b, "list", "room", "hub")
          [] cmd = "build" -> RouterBuild(b, user, rest, fillers)
          [] cmd \in {"room", "add"} ->
               IF Len(rest) < 2 \/ rest[1] # "add"
               THEN Emit(b, "usage", "sid", "hub")
               ELSE Raise(b)
          [] cmd = "door" ->
               IF \/ rest = <<>>
                  \/ rest[1] # "add"
                  \/ GetFlag(rest, "--from").val = <<>>
                  \/ GetFlag(rest, "--to").val = <<>>
               THEN Emit(b, "usage", "sid", "hub")
               ELSE Raise(b)
          [] cmd \in {"show", "map"} -> Emit(b, "show", "room", "hub")
          [] OTHER -> Emit(b, "hint", "sid", "hub")

\* on_send_message for a text that is not split: the home wizard, the
\* home router, or the broadcast of the text and maybe_run_bot
SendOne(b0, user, msg, fillers) ==
    LET b == [b0 EXCEPT !.dispatched = @ + 1]
    IN
    IF msg = <<>>
    THEN b0
    ELSE IF b.hw[Key(user)].step > 0
            /\ ~StartsWithWords(msg, <<"!home", "build">>)
    THEN HomeWizardHandle(b, user, msg, fillers)
    ELSE IF msg[1] \in {"!home", "!map"}
    THEN Router(b, user, msg, fillers)
    ELSE MaybeRunBot(Emit(b, "chat", "room", user), user, msg, fillers)

\* `try: on_send_message({..., 'msg': part}) except Exception: emit(...)`
\* for each part
RECURSIVE SendParts(_, _, _, _)
SendParts(b, user, parts, fillers) ==
    IF parts = <<>>
    THEN b
    ELSE LET r == SendOne(b, user, Head(parts), fillers)
             c == IF r.raised
                  THEN Emit([r EXCEPT !.raised = FALSE],
                            "could_not_run", "sid", "hub")
                  ELSE r
         IN  SendParts(c, user, Tail(parts), fillers)

\* on_send_message(data) by its text
Send(b, user, msg, fillers) ==
    IF IsBatch(msg) /\ Len(Parts(msg)) > 1
    THEN SendParts(b, user, Parts(msg), fillers)
    ELSE SendOne(b, user, msg, fillers)

\* one send_message event with a chat text of the dispatcher's words
SendText(sid, user, msg) ==
    /\ steps < MaxTexts
    /\ conn[sid] = "active"
    /\ \E fillers \in FillerOrders :
        LET r == Send(Bot(home_wizard, world_wizard, room_state,
                          now + EVENT_MS),
                      user, msg, fillers)
        IN  /\ steps' = steps + 1
            /\ home_wizard' = r.hw
            /\ world_wizard' = r.ww
            /\ room_state' = r.rs
            /\ now' = r.t
            /\ replies' = r.replies
            /\ home_cmd' = [Cmd("send", user, "", "", <<>>, r.raised)
                               EXCEPT !.msg = msg,
                                      !.dispatched = r.dispatched]
            /\ out' = <<>>
            /\ dm_out' = <<>>
            /\ UNCHANGED <<conn, online, room_members, joined, last,
                           dm_history, dm_rooms, dm_seq, dm_sealed>>
            /\ UNCHANGED <<world_state, home_doc, world_db, loaded,
                           build_toks, world_roles, inflight>>

(* --------------------------- specifications --------------------------- *)

Connect == \E sid \in Sids : on_connect(sid) /\ DmIdle /\ HomeIdle

Disconnect == \E sid \in Sids : on_disconnect(sid) /\ DmIdle /\ HomeIdle

Join == \E sid \in Sids, d \in JoinData : on_join(sid, d) /\ DmIdle /\ HomeIdle

Leave == \E sid \in Sids, d \in LeaveData : on_leave(sid, d) /\ DmIdle /\ HomeIdle

SendMessage == \E sid \in Sids, d \in MsgData : on_send_message(sid, d) /\ DmIdle /\ HomeIdle

Next == Connect \/ Disconnect \/ Join \/ Leave \/ SendMessage

\* Every event of a connection is handled between its connect and its
\* disconnect.
Spec == Init /\ [][Next]_vars

\* The join, leave, connect and disconnect events alone.
NextJoinLeave == Connect \/ Disconnect \/ Join \/ Leave

SpecJoinLeave == Init /\ [][NextJoinLeave]_vars

\* Event handlers run in their own threads (Flask-SocketIO's default), so
\* the handler of an event that a connection sent before it dropped can run
\* after on_disconnect has returned.
LateJoin ==
    \E sid \in Sids, d \in JoinData :
        /\ conn[sid] = "disconnected" /\ steps < MaxEvents
        /\ HandleJoin(sid, d) /\ DmIdle /\ HomeIdle

LateLeave ==
    \E sid \in Sids, d \in LeaveData :
        /\ conn[sid] = "disconnected" /\ steps < MaxEvents
        /\ HandleLeave(sid, d) /\ DmIdle /\ HomeIdle

LateSendMessage ==
    \E sid \in Sids, d \in MsgData :
        /\ conn[sid] = "disconnected" /\ steps < MaxEvents
        /\ HandleSendMessage(sid, d) /\ DmIdle /\ HomeIdle

NextLate == Next \/ LateJoin \/ LateLeave \/ LateSendMessage

SpecLate == Init /\ [][NextLate]_vars

DmOpen == \E sid \in DmSids, d \in DmOpenData : on_dm_open(sid, d)

DmSend == \E sid \in DmSids, d \in DmSendData(dm_seq) : on_dm_send(sid, d)

DmSealed == \E sid \in DmSids, d \in SealedData : on_dm_sealed(sid, d)

SealRequest == \E sid \in DmSids, d \in SealData : on_seal_request(sid, d)

SealAccept == \E sid \in DmSids, d \in SealData : on_seal_accept(sid, d)

NextDm ==
    \/ Connect \/ Disconnect
    \/ DmOpen \/ DmSend \/ DmSealed \/ SealRequest \/ SealAccept

\* The DM events of connections that come and go.
SpecDm == Init /\ [][NextDm]_vars

\* Connections 1 and 2 take turns sending each other a numbered plaintext
\* message, as often as it takes to fill their channel's history.
DmSendTurn ==
    LET sid == 1 + (dm_seq % 2)
    IN  /\ dm_seq < MaxDmSends
        /\ conn[1] = "active" /\ conn[2] = "active"
        /\ HandleDmSend(sid, [to_sid |-> SidName(3 - sid),
                              msg |-> MsgN(dm_seq + 1)])
        /\ last' = Last("dm_send", sid, SidName(3 - sid))
        /\ UNCHANGED steps

NextDmFill == Connect \/ DmSendTurn

SpecDmFill == Init /\ [][NextDmFill]_vars

\* The self-healing applied, any number of times, to a stored document.
InitRepair ==
    /\ conn = [s \in Sids |-> "connecting"]
    /\ online = <<>>
    /\ room_members = <<>>
    /\ joined = [s \in Sids |-> "no"]
    /\ steps = 0
    /\ last = Last("none", 0, <<>>)
    /\ out = <<>>
    /\ dm_history = <<>>
    /\ dm_rooms = [s \in Sids |-> {}]
    /\ dm_seq = 0
    /\ dm_sealed = {}
    /\ dm_out = <<>>
    /\ room_state = EmptyDoc
    /\ world_state = EmptyDoc
    /\ home_doc \in StoredDocs
    /\ home_cmd = NoCmd
    /\ now = T0
    /\ world_db = <<>>
    /\ loaded = <<>>
    /\ build_toks = DefaultBuildToks
    /\ inflight = [s \in Sids |-> Idle]
    /\ home_wizard = [u \in WizardKeys |-> NoWizard]
    /\ world_wizard = [u \in WizardKeys |-> NoWorldWizard]
    /\ world_roles = NoRoles
    /\ replies = <<>>

GetActive == \E user \in HomeUsers, dt \in Ticks : GetActiveHomeCall(user, dt)

EnsureDefault ==
    \E user \in HomeUsers, dt \in Ticks : EnsureDefaultHomeCall(user, dt)

NextRepair == GetActive \/ EnsureDefault

SpecRepair == InitRepair /\ [][NextRepair]_vars

\* the ids that a select or remove command can name: those of the homes
\* built so far, with a leading "#", and one that no home has
HomeArgs == {<<"#">> \o room_state.homes[i].id :
                i \in 1..Len(room_state.homes)} \cup {ID_X}

Create == \E sid \in Sids, user \in HomeUsers : HomeCreate(sid, user, EVENT_MS)

Select ==
    \E sid \in Sids, user \in HomeUsers, arg \in HomeArgs :
        HomeSelect(sid, user, arg)

Remove ==
    \E sid \in Sids, user \in HomeUsers, arg \in HomeArgs :
        HomeRemove(sid, user, arg)

Show == \E sid \in Sids, user \in HomeUsers : HomeShow(sid, user, EVENT_MS)

Build ==
    \E sid \in Sids, user \in HomeUsers, dt \in Ticks :
        HomeBuild(sid, user, EVENT_MS, dt)

Door ==
    \E sid \in Sids, user \in HomeUsers, word \in DoorWords :
        DoorCommand(sid, user, word, DOOR_FROM, DOOR_TO, EVENT_MS)

NextHome == Connect \/ Create \/ Select \/ Remove \/ Show \/ Build \/ Door

\* The home commands of the connections of one room.
SpecHome == Init /\ [][NextHome]_vars

\* the store as a restart finds it: no row for the room, or the row that
\* an earlier run of the hub left there
InitStore ==
    /\ conn = [s \in Sids |-> "connecting"]
    /\ online = <<>>
    /\ room_members = <<>>
    /\ joined = [s \in Sids |-> "no"]
    /\ steps = 0
    /\ last = Last("none", 0, <<>>)
    /\ out = <<>>
    /\ dm_history = <<>>
    /\ dm_rooms = [s \in Sids |-> {}]
    /\ dm_seq = 0
    /\ dm_sealed = {}
    /\ dm_out = <<>>
    /\ room_state = EmptyDoc
    /\ world_state = DefaultWorldState
    /\ home_doc = EmptyDoc
    /\ home_cmd = NoCmd
    /\ now = T0
    /\ world_db \in {<<>>} \cup {<<d>> : d \in StoredDocs}
    /\ loaded = <<>>
    /\ build_toks = DefaultBuildToks
    /\ inflight = [s \in Sids |-> Idle]
    /\ home_wizard = [u \in WizardKeys |-> NoWizard]
    /\ world_wizard = [u \in WizardKeys |-> NoWorldWizard]
    /\ world_roles = NoRoles
    /\ replies = <<>>

Save == \E st \in StoredDocs : SaveWorldStateCall(st)

Load == LoadWorldStateCall

NextStore == Save \/ Load

SpecStore == InitStore /\ [][NextStore]_vars

\* a flag with its value, or the flag left out
Opt(flag, words) == {<<>>} \cup {<<flag, w>> : w \in words}

\* the words after `!home build`: a name, a total of at least one room,
\* and bedroom, bathroom and kitchen counts given or left out
BuildToks ==
    { <<"--name", n, "--total_rooms", t>> \o b \o ba \o k :
        n \in {"Cabin", "Den"}, t \in {"1", "2", "4"},
        b \in Opt("--bedrooms", {"0", "2"}),
        ba \in Opt("--bathrooms", {"1"}),
        k \in Opt("--kitchen", {"0", "2"}) }

InitBuild ==
    /\ conn = [s \in Sids |-> "connecting"]
    /\ online = <<>>
    /\ room_members = <<>>
    /\ joined = [s \in Sids |-> "no"]
    /\ steps = 0
    /\ last = Last("none", 0, <<>>)
    /\ out = <<>>
    /\ dm_history = <<>>
    /\ dm_rooms = [s \in Sids |-> {}]
    /\ dm_seq = 0
    /\ dm_sealed = {}
    /\ dm_out = <<>>
    /\ room_state = EmptyDoc
    /\ world_state = DefaultWorldState
    /\ home_doc = EmptyDoc
    /\ home_cmd = NoCmd
    /\ now = T0
    /\ world_db = <<>>
    /\ loaded = <<>>
    /\ build_toks \in BuildToks
    /\ inflight = [s \in Sids |-> Idle]
    /\ home_wizard = [u \in WizardKeys |-> NoWizard]
    /\ world_wizard = [u \in WizardKeys |-> NoWorldWizard]
    /\ world_roles = NoRoles
    /\ replies = <<>>

BuildNamed ==
    \E sid \in DmSids, user \in HomeUsers :
        HomeBuild(sid, user, EVENT_MS, EVENT_MS)

NextBuild == Connect \/ BuildNamed

\* `!home build --name N --total_rooms T ...` sent by the users of a room.
SpecBuild == InitBuild /\ [][NextBuild]_vars

\* the connection ids the server has issued: those of the two connections
\* that exchange DMs and that of a third; like the ids that the server
\* generates, they hold no ":"
ConnIds == {SidName(s) : s \in DmSids \cup {Cardinality(DmSids) + 1}}

\* the to_sid of a dm_open: a connection id, or two of them with a ":"
\* between, as a client that aims at the group of another pair would send
RelayTo ==
    ConnIds \cup {k[1] \o <<":">> \o k[2] :
                     k \in {dm_key(a, b) : a, b \in ConnIds} \ {<<a, a>> : a \in ConnIds}}

RelayOpen ==
    \E sid \in Sids, to \in RelayTo : on_dm_open(sid, [to_sid |-> to])

\* the one DM of a run
RelaySend ==
    \E sid \in Sids, to \in ConnIds :
        /\ dm_seq = 0
        /\ on_dm_send(sid, [to_sid |-> to, msg |-> MsgN(1)])

NextRelay == Connect \/ RelayOpen \/ RelaySend

\* Connections that open relay groups under any to_sid and send DMs.
SpecRelay == Init /\ [][NextRelay]_vars

\* the room names of the legacy `add` commands
AddNames == {"A", "K"}

\* the threads that handle events at the same time
Threads == DmSids

BeginAdd ==
    \E h \in Threads, sid \in DmSids, user \in HomeUsers, name \in AddNames :
        BeginHomeAdd(h, sid, user, name)

BeginDoor ==
    \E h \in Threads, sid \in DmSids, user \in HomeUsers :
        BeginDoorAdd(h, sid, user, DOOR_FROM, DOOR_TO)

End == \E h \in Threads : EndMutate(h)

NextRace == Connect \/ BeginAdd \/ BeginDoor \/ End

\* Commands on one room's document of STATE_FILE, handled concurrently.
SpecRace == Init /\ [][NextRace]_vars

DropBegin == \E h \in Threads, sid \in Sids : BeginDisconnect(h, sid)

DropDiscard == \E h \in Threads : DisconnectDiscard(h)

DropDelete == \E h \in Threads : DisconnectDelete(h)

DropEnd == \E h \in Threads : EndDisconnect(h)

\* a `/join <room>` message of an active connection
JoinMessage ==
    \E sid \in Sids, d \in MsgData :
        /\ conn[sid] = "active"
        /\ steps < MaxEvents
        /\ SlashJoin(sid, MsgUser(d), MsgRoom(sid, d), Strip(d.msg))
        /\ DmIdle
        /\ HomeIdle

\* a join without rooms, and one with the legacy `room` key
DropJoinData ==
    { JoinPayload(<<>>, <<>>, <<>>), JoinPayload(<<>>, <<"b">>, <<>>) }

JoinDuring ==
    \E sid \in Sids, d \in DropJoinData : on_join(sid, d) /\ DmIdle /\ HomeIdle

NextDrop ==
    Connect \/ JoinDuring \/ JoinMessage \/ DropBegin \/ DropDiscard \/ DropDelete
        \/ DropEnd

\* Joins handled while the loop of a disconnect is running.
SpecDrop == Init /\ [][NextDrop]_vars

\* the targets of `!world addhelper`: a name with and without "@", and
\* none
HelperArgs ==
    {AtName(u) : u \in HomeUsers} \cup {<<"bo">>, <<"@">>, <<"bo", ",", "bo">>}

Claim == \E sid \in DmSids, user \in HomeUsers : WorldClaim(sid, user)

AddHelper ==
    \E sid \in DmSids, user \in HomeUsers, arg \in HelperArgs :
        WorldAddHelper(sid, user, arg)

BuildHome ==
    \E sid \in DmSids, user \in HomeUsers :
        HomeBuild(sid, user, EVENT_MS, EVENT_MS)

RemoveBuilt ==
    \E sid \in DmSids, user \in HomeUsers, arg \in HomeArgs :
        HomeRemove(sid, user, arg)

DelHelper ==
    \E sid \in DmSids, user \in HomeUsers, arg \in HelperArgs :
        WorldDelHelper(sid, user, arg)

NextRoles ==
    Connect \/ Claim \/ AddHelper \/ DelHelper \/ BuildHome \/ RemoveBuilt

\* The roles of one room and the removal of its homes.
SpecRoles == Init /\ [][NextRoles]_vars

ClaimBegin ==
    \E h \in Threads, sid \in DmSids, user \in HomeUsers :
        BeginClaim(h, sid, user)

ClaimEnd == \E h \in Threads : EndClaim(h)

NextClaim == Connect \/ ClaimBegin \/ ClaimEnd \/ AddHelper

\* `!world claim` handled concurrently, and the owner's helpers.
SpecClaim == Init /\ [][NextClaim]_vars

\* the texts of the dispatcher's runs: plain chat, commands, and rows of
\* commands joined by the separator
BotMsgs ==
    { <<"hello">>, <<"cancel">>,
      <<"!frobnicate">>, <<"!users">>, <<"!build", "world">>,
      <<"!users", SEP, "!frobnicate">> }

RouterMsgs ==
    { <<"!home", "build">>, <<"!home", "build", "--total_rooms">>,
      <<"!home", "build", QUOTE>>, <<"!home", "create", "txt">>,
      <<"!home", "create">>,
      <<"!home", "build", SEP>>,
      <<"!home", "create", "txt", SEP, "!users">> }

\* the sender of the dispatcher's runs, and the two spellings of the bot's
\* own name
BotUsers == {"al"}

BotNames == {BOT_NAME, "Ghost-Bot"}

\* al's home wizard as a run can find it: not started, or waiting for the
\* last of the nine answers
HomeWizards ==
    { NoWizard,
      [step |-> HOME_STEPS,
       data |-> [name |-> <<"Den">>, bedrooms |-> 3, bathrooms |-> 2,
                 kitchen |-> 1, total_rooms |-> 8]] }

WorldWizards == {NoWorldWizard, [step |-> WORLD_STEPS, name |-> <<"Eden">>]}

\* the connection the texts come in on, open when the runs start
BotSids == {1}

InitBot ==
    /\ conn = [s \in Sids |-> IF s \in BotSids THEN "active" ELSE "connecting"]
    /\ online = <<>>
    /\ room_members = <<>>
    /\ joined = [s \in Sids |-> "no"]
    /\ steps = 0
    /\ last = Last("none", 0, <<>>)
    /\ out = <<>>
    /\ dm_history = <<>>
    /\ dm_rooms = [s \in Sids |-> {}]
    /\ dm_seq = 0
    /\ dm_sealed = {}
    /\ dm_out = <<>>
    /\ room_state = EmptyDoc
    /\ world_state = DefaultWorldState
    /\ home_doc = EmptyDoc
    /\ home_cmd = NoCmd
    /\ now = T0
    /\ world_db = <<>>
    /\ loaded = <<>>
    /\ build_toks = DefaultBuildToks
    /\ inflight = [s \in Sids |-> Idle]
    /\ \E w \in HomeWizards :
           home_wizard = [u \in WizardKeys |-> IF u = "al" THEN w ELSE NoWizard]
    /\ \E w \in WorldWizards :
           world_wizard =
               [u \in WizardKeys |-> IF u = "al" THEN w ELSE NoWorldWizard]
    /\ world_roles = NoRoles
    /\ replies = <<>>

CreateHome ==
    \E sid \in DmSids, user \in HomeUsers : HomeCreate(sid, user, EVENT_MS)

BuildWriteFails ==
    \E sid \in DmSids, user \in HomeUsers : HomeBuildWriteFails(sid, user)

NextSave == Connect \/ CreateHome \/ BuildHome \/ BuildWriteFails

\* The commands that write a room's document to durable storage, with
\* writes that fail.
SpecSave == Init /\ [][NextSave]_vars

\* number of segments in the longest button row
MaxSegments == 6

\* a button row of n `!users` commands
RECURSIVE Row(_)
Row(n) == IF n = 1 THEN <<"!users">> ELSE <<"!users", SEP>> \o Row(n - 1)

SendRow ==
    \E sid \in BotSids, user \in BotUsers \cup BotNames, n \in 1..MaxSegments :
        SendText(sid, user, Row(n))

NextBatch == SendRow

\* Button rows of every length up to MaxSegments.
SpecBatch == InitBot /\ [][NextBatch]_vars

SendChat ==
    \E sid \in BotSids, user \in BotUsers, msg \in BotMsgs \cup RouterMsgs :
        SendText(sid, user, msg)

SendAsBot ==
    \/ \E sid \in BotSids, user \in BotNames, msg \in BotMsgs :
           SendText(sid, user, msg)
    \/ \E sid \in BotSids :
           SendText(sid, BOT_NAME, <<"!home", "build", "--total_rooms">>)

NextBot == SendChat \/ SendAsBot

\* The chat texts of one user of a room, and of a sender who goes by the
\* bot's name.
SpecBot == InitBot /\ [][NextBot]_vars

(* ------------------------------- claims ------------------------------- *)

\* the rooms that some membership set or some presence entry names
KnownRooms ==
    DOMAIN room_members \cup UNION {Range(online[c].rooms) : c \in DOMAIN online}

\* c is in no membership set
NoMembership(m, c) == \A r \in DOMAIN m : c \notin m[r]

\* C1: after every join or leave, a connection id is in a room's membership
\* set if and only if the room is in the connection's joined-room set.
C1_MembershipIffJoined ==
    \A c \in Sids, r \in KnownRooms :
        (c \in Members(room_members, r))
            <=> (c \in DOMAIN online /\ Contains(online[c].rooms, r))

\* C2: a leave or /part that targets the lobby, with or without the "#",
\* changes neither the presence entries nor any membership set.
C2_LobbyNeverLeft ==
    [][ (/\ last'.op \in {"leave", "/part"}
         /\ steps' = steps + 1
         /\ HashPrefix(Strip(last'.room)) = MAIN_ROOM)
        => (online' = online /\ room_members' = room_members) ]_vars

\* a connection that joined the lobby and another room has just asked to
\* leave "lobby"
C2_Witness ==
    /\ last.op = "leave"
    /\ last.room = LOBBY_BARE
    /\ last.sid \in DOMAIN online
    /\ Contains(online[last.sid].rooms, MAIN_ROOM)
    /\ Len(online[last.sid].rooms) > 1
    /\ last.sid \in Members(room_members, MAIN_ROOM)

\* C3: once disconnect of c has been handled, c is in no membership set and
\* has no presence entry.
C3_DisconnectRemoves ==
    \A c \in Sids :
        conn[c] = "disconnected"
            => (c \notin DOMAIN online /\ NoMembership(room_members, c))

\* a connection that had joined rooms has just been disconnected while
\* another connection is still a member of the lobby
C3_Witness ==
    /\ last.op = "disconnect"
    /\ joined[last.sid] = "join"
    /\ \E c \in Sids \ {last.sid} : c \in Members(room_members, MAIN_ROOM)

\* C4: a connection that has connected and not joined has a presence entry
\* with the default values, is in no membership set, and is reported by no
\* occupant list.
C4_ConnectedNotJoined ==
    \A c \in Sids :
        (conn[c] = "active" /\ joined[c] = "no")
            => /\ c \in DOMAIN online
               /\ online[c] = DefaultEntry
               /\ NoMembership(room_members, c)
               /\ \A i \in 1..Len(out) :
                      out[i].ev = "room_users" => c \notin out[i].users

\* C5: no step re-creates a presence entry or a membership of a connection
\* whose disconnect has been handled.
C5_DisconnectedIsTerminal ==
    [][ \A c \in Sids :
            conn[c] = "disconnected"
                => (c \notin DOMAIN online' /\ NoMembership(room_members', c)) ]_vars

\* C6: a join of a connection with joined rooms R1 that requests R2 leaves
\* its joined-room set equal to R1 \cup R2 \cup {#lobby}, and the connection
\* in the membership set of each of these rooms.
C6_JoinUnions ==
    [][ \A c \in Sids, d \in JoinData :
            (c \in DOMAIN online /\ joined[c] = "join" /\ on_join(c, d))
                => LET all == Range(online[c].rooms)
                                \cup Range(NormRooms(JoinRawRooms(d)))
                                \cup {MAIN_ROOM}
                   IN  /\ Range(online'[c].rooms) = all
                       /\ \A r \in all : c \in Members(room_members', r) ]_vars

\* C7: once a join has been handled for a connection, the lobby is in its
\* joined-room set, also after later leave, /join and /part events.
C7_LobbyAlwaysJoined ==
    \A c \in DOMAIN online :
        joined[c] = "join" => Contains(online[c].rooms, MAIN_ROOM)

\* C8: the active room of every joined connection is one of its joined rooms.
C8_ActiveRoomIsJoined ==
    \A c \in DOMAIN online :
        joined[c] = "join" => Contains(online[c].rooms, online[c].room)

\* C9: an emitted occupant list of room r holds c exactly when c has joined r
\* and has neither left r nor disconnected.
C9_OccupantListIsMembership ==
    \A i \in 1..Len(out) :
        out[i].ev = "room_users"
            => \A c \in Sids :
                   c \in out[i].users <=> c \in Members(room_members, out[i].room)

\* C10: the handler of an event that changes a room's membership set emits
\* that room's occupant list and the global presence summary.
C10_MembershipChangeBroadcast ==
    [][ \A r \in DOMAIN room_members \cup DOMAIN room_members' :
            Members(room_members', r) # Members(room_members, r)
                => /\ \E i \in 1..Len(out') :
                          out'[i].ev = "room_users" /\ out'[i].room = r
                   /\ \E i \in 1..Len(out') : out'[i].ev = "user_list_update" ]_vars

\* the entry carries no sealed payload: it is a plaintext message
Plain(p) ==
    /\ p.kind = KIND_DM
    /\ p.ciphertext_b64 = <<>> /\ p.iv_b64 = <<>> /\ p.glyphset = <<>>

\* C11: no history that the server keeps, and no dm_history that dm_open
\* returns, holds an entry carrying a sealed ciphertext: every entry is a
\* plaintext message.
C11_SealedNeverInHistory ==
    /\ \A k \in DOMAIN dm_history :
          \A j \in 1..Len(dm_history[k]) : Plain(dm_history[k][j])
    /\ \A i \in 1..Len(dm_out) :
          dm_out[i].ev = "dm_history" =>
              \A j \in 1..Len(dm_out[i].items) : Plain(dm_out[i].items[j])

\* a dm_open returned a non-empty history for a pair whose relay group was
\* sent a sealed payload before
C11_Witness ==
    \E i \in 1..Len(dm_out) :
        /\ dm_out[i].ev = "dm_history"
        /\ dm_out[i].items # <<>>
        /\ dm_room(SidName(dm_out[i].toSid), dm_out[i].payload.to_sid)
               \in dm_sealed

\* the target of a DM event that its handler does not return on
Relayable(sid, d) ==
    Strip(d.to_sid) # <<>> /\ Strip(d.to_sid) # SidName(sid)

\* the one event that the step emitted went to the relay group of the pair
RelayedToPair(sid, d, ev) ==
    /\ Len(dm_out') = 1
    /\ dm_out'[1].ev = ev
    /\ dm_out'[1].toRoom = dm_room(SidName(sid), Strip(d.to_sid))

\* the presence, membership and DM state that a relay is to leave alone
RelayFrame ==
    UNCHANGED <<conn, online, room_members, joined, dm_history, dm_rooms,
                dm_seq>>

\* C12: a dm_sealed, seal_request or seal_accept step changes neither the
\* DM history nor presence nor membership, and the event it sends to the
\* pair's relay group carries the ciphertext, iv, key-set id and public-key
\* fields exactly as they were received.
C12_SealedRelayOnly ==
    [][LET sid == last'.sid
       IN  /\ last'.op = "dm_sealed" =>
                 \A d \in SealedData :
                   on_dm_sealed(sid, d) =>
                       /\ RelayFrame
                       /\ Relayable(sid, d) =>
                              /\ RelayedToPair(sid, d, "dm_sealed")
                              /\ dm_out'[1].payload.ciphertext_b64 = d.ciphertext_b64
                              /\ dm_out'[1].payload.iv_b64 = d.iv_b64
                              /\ dm_out'[1].payload.glyphset = d.glyphset
           /\ last'.op = "seal_request" =>
                 \A d \in SealData :
                   on_seal_request(sid, d) =>
                       /\ RelayFrame
                       /\ Relayable(sid, d) =>
                              /\ RelayedToPair(sid, d, "seal_request")
                              /\ dm_out'[1].payload.pubkey_jwk = d.pubkey_jwk
           /\ last'.op = "seal_accept" =>
                 \A d \in SealData :
                   on_seal_accept(sid, d) =>
                       /\ RelayFrame
                       /\ Relayable(sid, d) =>
                              /\ RelayedToPair(sid, d, "seal_accept")
                              /\ dm_out'[1].payload.pubkey_jwk = d.pubkey_jwk
      ]_vars

\* a sealed payload was relayed while the pair's history held a message
C12_Witness ==
    /\ last.op = "dm_sealed"
    /\ dm_out # <<>>
    /\ dm_out[1].payload.ciphertext_b64 = CT
    /\ Hist(dm_history,
            dm_key(dm_out[1].payload.from_sid, dm_out[1].payload.to_sid)) # <<>>

\* the connection id string has an entry in the presence registry
HasPresence(on, name) == \E s \in DOMAIN on : SidName(s) = name

\* C13: a dm_send, dm_sealed, seal_request or seal_accept whose target is
\* the sender's own connection id, or an id without a presence entry, emits
\* nothing and appends nothing to any DM history.
C13_BadTargetDropped ==
    [][(/\ last'.op \in {"dm_send", "dm_sealed", "seal_request", "seal_accept"}
        /\ steps' = steps + 1
        /\ \/ last'.room = SidName(last'.sid)
           \/ ~HasPresence(online, last'.room))
       => (dm_out' = <<>> /\ dm_history' = dm_history)
      ]_vars

\* the connection id strings that a DM event can name
SidNames == {SidName(s) : s \in Sids} \cup {UNKNOWN_SID}

\* the history without its last entry
Front(h) == Take(h, Len(h) - 1)

\* C14: _dm_key and _dm_room do not depend on the order of the pair, and
\* after A sent B a plaintext message the history that dm_open reads for A
\* opening B is the one it reads for B opening A: the earlier messages in
\* their order, then the new one.
C14_DmVisibleToBoth ==
    [][\A a \in {last'.sid}, b \in DmSids :
         \A d \in DmSendData(dm_seq) :
           (/\ last'.op = "dm_send"
            /\ a # b
            /\ Strip(d.to_sid) = SidName(b)
            /\ Strip(d.msg) # <<>>
            /\ on_dm_send(a, d))
           => LET before == OpenItems(dm_history, b, SidName(a))
                  toA    == OpenItems(dm_history', a, SidName(b))
                  toB    == OpenItems(dm_history', b, SidName(a))
              IN  /\ \A x \in SidNames, y \in SidNames :
                        /\ dm_key(x, y) = dm_key(y, x)
                        /\ dm_room(x, y) = dm_room(y, x)
                  /\ toA = toB
                  /\ toB # <<>>
                  /\ toB[Len(toB)].msg = Strip(d.msg)
                  /\ toB[Len(toB)].from_sid = SidName(a)
                  /\ Len(before) < DM_HISTORY_MAX => Front(toB) = before
      ]_vars

\* a dm_open returned to the receiver the two messages that the other
\* connection sent it, the first one first
C14_Witness ==
    /\ last.op = "dm_open"
    /\ dm_out # <<>>
    /\ Len(dm_out[1].items) >= 2
    /\ dm_out[1].items[1].from_sid # SidName(last.sid)
    /\ dm_out[1].items[1].to_sid = SidName(last.sid)
    /\ dm_out[1].items[1].msg = MsgN(1)
    /\ dm_out[1].items[2].msg = MsgN(2)

\* C15: a channel's history never holds more than DM_HISTORY_MAX entries;
\* it holds the most recent messages sent on the channel, in send order, so
\* an append to a full history dropped the oldest entry and kept the rest.
C15_HistoryBounded ==
    \A k \in DOMAIN dm_history :
        LET h == dm_history[k]
        IN  /\ Len(h) <= DM_HISTORY_MAX
            /\ Len(h) = IF dm_seq < DM_HISTORY_MAX THEN dm_seq
                                                   ELSE DM_HISTORY_MAX
            /\ \A i \in 1..Len(h) : h[i].msg = MsgN(dm_seq - Len(h) + i)

\* one message more than the history holds was sent: the first is gone
C15_Witness ==
    /\ dm_seq = DM_HISTORY_MAX + 1
    /\ \E k \in DOMAIN dm_history :
          /\ Len(dm_history[k]) = DM_HISTORY_MAX
          /\ dm_history[k][1].msg = MsgN(2)
          /\ dm_history[k][DM_HISTORY_MAX].msg = MsgN(DM_HISTORY_MAX + 1)

\* the pointer names a home id that is not in the directory
Dangling(st, hid) == hid # <<>> /\ ~HasHome(st, hid)

\* C16: _get_active_home on a document whose default-home pointer, or the
\* user's selected pointer, is dangling returns an id of the directory and
\* leaves the default-home pointer naming a home of the directory; an empty
\* directory gets one synthesized home.
C16_DanglingPointerHealed ==
    [][(/\ home_cmd'.op = "get_active_home"
        /\ steps' = steps + 1
        /\ \/ Dangling(home_doc, home_doc.default)
           \/ Dangling(home_doc, home_doc.selected[home_cmd'.user]))
       => (/\ HasHome(home_doc', home_cmd'.hid)
           /\ home_doc'.default # <<>>
           /\ HasHome(home_doc', home_doc'.default)
           /\ home_doc.homes = <<>> => Len(home_doc'.homes) = 1)
      ]_vars

\* C17: the self-healing applied again by the same caller is a no-op: the
\* directory, the default-home pointer and the returned id are those of the
\* first application.
C17_RepairIdempotent ==
    [][(/\ home_cmd'.op \in {"get_active_home", "ensure_default_home"}
        /\ steps' = steps + 1
        /\ home_cmd'.again)
       => (/\ home_doc'.homes = home_doc.homes
           /\ home_doc'.default = home_doc.default
           /\ home_cmd'.hid = home_cmd.hid)
      ]_vars

\* the repair ran twice on a document whose directory was empty and whose
\* pointers were dangling: the home it synthesized is the only one
C17_Witness ==
    /\ home_cmd.again
    /\ home_cmd.op = "get_active_home"
    /\ Len(home_doc.homes) = 1
    /\ home_doc.homes[1].id \notin Pointers
    /\ home_doc.default = home_cmd.hid
    /\ Dangling(home_doc, home_doc.selected["al"])

\* every home id in the default pointer or in a selected pointer of the
\* document is a key of its directory
PointersResolve(st) ==
    /\ st.default # <<>> => HasHome(st, st.default)
    /\ \A u \in HomeUsers : st.selected[u] # <<>> => HasHome(st, st.selected[u])

\* C18: after any sequence of home commands, every home id held in the
\* default-home pointer or in a user's selected-home pointer is a key of
\* the directory, in each stored document of the room and in the document
\* the last command worked on.
C18_PointersResolve ==
    /\ PointersResolve(room_state)
    /\ PointersResolve(world_state)
    /\ PointersResolve(home_doc)

\* both users built a home and selected it, and then a remove command
\* named one of the two homes
C18_Witness ==
    /\ home_cmd.op = "remove"
    /\ HasHome(room_state, home_cmd.hid)
    /\ room_state.selected["al"] # <<>>
    /\ room_state.selected["bo"] # <<>>
    /\ room_state.selected["al"] # room_state.selected["bo"]

\* C19: after `!home door add --from A --to B`, A and B are both in the
\* room list of the home that got the door.
C19_DoorEndpointsPresent ==
    [][(home_cmd'.op = "door_add" /\ steps' = steps + 1)
       => LET home == HomeAt(home_doc', home_cmd'.hid)
          IN  /\ Contains(home.rooms, home_cmd'.frm)
              /\ Contains(home.rooms, home_cmd'.to)
      ]_vars

\* the entries for the pair in the door lists of the document's homes
DoorEntries(st, frm, to) ==
    {<<i, j>> \in (1..Len(st.homes)) \X (1..MaxEvents + 1) :
        /\ j <= Len(st.homes[i].doors)
        /\ st.homes[i].doors[j] = <<frm, to>>}

\* C20: after the same `!home door add --from A --to B` was sent twice,
\* the room's document holds exactly one door entry for the pair.
C20_DoorAddedOnce ==
    [][(home_cmd'.op = "door_add" /\ steps' = steps + 1 /\ home_cmd'.again)
       => Cardinality(DoorEntries(world_state', home_cmd'.frm, home_cmd'.to)) = 1
      ]_vars

\* C21: saving a document for a room and then loading that room yields
\* the saved document: the load returns it, or at least leaves it as the
\* room's document in memory.
C21_SaveLoadRoundTrip ==
    [][(home_cmd.op = "save_world_state" /\ home_cmd'.op = "load_world_state")
       => (loaded' = <<home_doc>> \/ world_state' = home_doc)
      ]_vars

\* C22: `!home build --name N --total_rooms T` with T >= 1 and any
\* bedroom, bathroom and kitchen counts, sent by user u, leaves a home
\* named N with at least T rooms, and that home is u's selected home.
C22_BuildResult ==
    [][(home_cmd'.op = "build" /\ now' > now)
       => LET f == BuildFlags(build_toks)
              hid == room_state'.selected[home_cmd'.user]
          IN  /\ HasHome(room_state', hid)
              /\ ~HasHome(room_state, hid)
              /\ HomeAt(room_state', hid).name = f.name
              /\ HomeAt(room_state', hid).created_by = home_cmd'.user
              /\ Len(HomeAt(room_state', hid).rooms) >= f.total_rooms
      ]_vars

\* bo built a home of four rooms with no counts given: the foyer, one
\* kitchen and two themed rooms
C22_Witness ==
    /\ home_cmd.op = "build"
    /\ home_cmd.user = "bo"
    /\ build_toks = <<"--name", "Cabin", "--total_rooms", "4">>
    /\ HasHome(room_state, room_state.selected["bo"])
    /\ HomeAt(room_state, room_state.selected["bo"]).name = <<"Cabin">>
    /\ Len(HomeAt(room_state, room_state.selected["bo"]).rooms) = 4
    /\ HomeAt(room_state, room_state.selected["bo"]).rooms[4] = "Lounge"


\* the "Unknown command" messages among the chat messages of one event
Unknowns(rs) == Cardinality({i \in 1..Len(rs) : rs[i].kind = "unknown"})

HoldsRole(roles, user) ==
    IsWorldOwner(roles, user) \/ Contains(roles.helpers, <<user>>)

\* C24: `!home remove <id>` for an existing home, from a user who is
\* neither its creator nor the room's owner or a helper, leaves the
\* directory and the pointers as they were and sends one permission-denied
\* message, to the requester only.
C24_RemoveDenied ==
    [][(/\ home_cmd'.op = "remove"
        /\ now' > now
        /\ HasHome(room_state, home_cmd'.hid)
        /\ HomeAt(room_state, home_cmd'.hid).created_by # home_cmd'.user
        /\ ~HoldsRole(world_roles, home_cmd'.user)
        /\ ~IsManager(world_roles, home_cmd'.user))
       => /\ replies' = <<Reply("denied", "sid", "hub")>>
          /\ room_state' = room_state
          /\ world_state' = world_state]_vars

\* C25: `!home remove <id>` for an existing home, from its creator or from
\* the user recorded as the room's owner or helper by `!world claim` or
\* `!world addhelper`, removes the home from the room's directory.
C25_RemoveAllowed ==
    [][(/\ home_cmd'.op = "remove"
        /\ now' > now
        /\ HasHome(room_state, home_cmd'.hid)
        /\ \/ HomeAt(room_state, home_cmd'.hid).created_by = home_cmd'.user
           \/ HoldsRole(world_roles, home_cmd'.user))
       => ~HasHome(room_state', home_cmd'.hid)]_vars


RECURSIVE Separately(_, _, _, _)
Separately(b, user, parts, fillers) ==
    IF parts = <<>>
    THEN b
    ELSE Separately([SendOne(b, user, Head(parts), fillers)
                        EXCEPT !.raised = FALSE],
                    user, Tail(parts), fillers)

\* C27: a text that starts with `!` and contains the separator leaves the
\* wizard tables and the room's document, and emits the chat messages,
\* exactly as its non-empty segments would when sent from left to right
\* as separate messages.
C27_BatchAsSeparate ==
    [][(/\ home_cmd'.op = "send"
        /\ steps' = steps + 1
        /\ IsBatch(home_cmd'.msg))
       => \E f \in FillerOrders :
              LET s == Separately(Bot(home_wizard, world_wizard, room_state,
                                      now + EVENT_MS),
                                  home_cmd'.user, Parts(home_cmd'.msg), f)
              IN  /\ home_wizard' = s.hw
                  /\ world_wizard' = s.ww
                  /\ room_state' = s.rs
                  /\ replies' = s.replies]_vars


\* C28: whatever the number of separators in a text, the number of
\* segments dispatched from it stays below the length of the longest row
\* sent: some limit rejects or truncates the row.
C28_BatchBounded ==
    [][(home_cmd'.op = "send" /\ steps' = steps + 1)
       => home_cmd'.dispatched < MaxSegments]_vars


\* C29: every send_message text, whatever its quotes, flags and arguments,
\* is handled without an exception leaving the handler, and the
\* connections stay registered.
C29_NoCrash ==
    [][(home_cmd'.op = "send" /\ steps' = steps + 1)
       => /\ ~home_cmd'.raised
          /\ conn' = conn
          /\ online' = online]_vars

\* C30: a command that changes a room's document and whose write to
\* durable storage fails still completes: no exception leaves the
\* handler, the room's document in memory holds the new home, and the
\* message that describes the change is emitted.
C30_SaveFailureSwallowed ==
    [][(home_cmd'.op \in {"create", "build_oserror"} /\ now' > now)
       => /\ ~home_cmd'.raised
          /\ replies' # <<>>
          /\ \/ HasHome(world_state', home_cmd'.hid)
             \/ Len(room_state'.homes) > Len(room_state.homes)]_vars


\* the rooms and doors of the legacy home of one document are all in the
\* other
KeepsHome(old, new) ==
    /\ \A i \in 1..Len(old.home.rooms) :
           Contains(new.home.rooms, old.home.rooms[i])
    /\ \A i \in 1..Len(old.home.doors) :
           Contains(new.home.doors, old.home.doors[i])

\* C31: the commands of the model only add rooms and doors, so a command
\* that writes the room's document back removes nothing that the document
\* held just before the write: what another command wrote between this
\* command's read and its write is still there.
C31_NoLostUpdate ==
    [][(home_cmd'.op = "set_room_state" /\ now' > now)
       => KeepsHome(room_state, room_state')]_vars


\* C32: after a command that changes a room's document and meets no
\* storage failure, the durable record of the room equals the document
\* that the command left: the row of world_states for `!home create`, the
\* room's entry of STATE_FILE for `!home build`.
C32_WriteThrough ==
    [][(home_cmd'.op \in {"create", "build"} /\ now' > now)
       => IF home_cmd'.op = "create"
          THEN world_db' = <<home_doc'>> /\ world_state' = home_doc'
          ELSE room_state' = home_doc']_vars


\* C33: once the room has an owner, no step changes the owner: a
\* `!world claim` handled later or at the same time leaves it as it is.
C33_OwnerKept ==
    [][world_roles.owner # <<>>
       => world_roles'.owner = world_roles.owner]_vars


\* no name is in the list twice
NoDuplicate(list) ==
    \A i, j \in 1..Len(list) : list[i] = list[j] => i = j

C35_JoinNormalized ==
    [][(last'.op = "join" /\ steps' = steps + 1)
       => LET c == last'.sid
              rooms == online'[c].rooms
          IN  /\ Len(rooms) <= ROOMS_CAP
              /\ NoDuplicate(rooms)
              /\ \A i \in 1..Len(rooms) : StartsWith(rooms[i], <<"#">>)
              /\ \A r \in DOMAIN room_members' :
                     c \in room_members'[r] => Contains(rooms, r)]_vars

\* C36: command selection ignores the case of the first word: a door command
\* step, whatever the case of its first word, is a step of the same handler
\* with the effect of the lower-case command on the stored documents and on
\* the output.
C36_CaseIgnored ==
    [][(home_cmd'.op \in {"door_add", "bot_door_add"} /\ now' > now)
       => LET user == home_cmd'.user
              r == GetActiveHome(RouterDoc, user, now')
              st == RouterDoorAdd(r.st, r.hid, home_cmd'.frm, home_cmd'.to)
          IN  /\ home_cmd'.op = "door_add"
              /\ home_cmd'.raised
              /\ replies' = <<>>
              /\ room_state' = room_state
              /\ world_state' = SaveWorldState(world_state, st)]_vars

\* C37: a home that `!home build` stored in the room is in the directory
\* that later home commands see: `!home select <id>` and `!home remove <id>`
\* with its id find the home, and do not answer with the usage line of an
\* unknown id.
C37_BuiltHomeVisible ==
    [][(/\ home_cmd'.op \in {"select", "remove"}
        /\ now' > now
        /\ HasHome(room_state, home_cmd'.hid))
       => replies' # <<Reply("usage", "sid", "hub")>>]_vars

\* C38: creating a home never overwrites or removes a home of the directory:
\* after `!home build`, every home that was in the directory when the new id
\* was generated, the default home synthesized by the same command included,
\* is still there as it was.
C38_CreateKeepsHomes ==
    [][(home_cmd'.op = "build" /\ now' > now)
       => LET st1 == EnsureDefaultHome(room_state, home_cmd'.user,
                                       now + EVENT_MS).st
          IN  \A i \in 1..Len(st1.homes) :
                  \E j \in 1..Len(room_state'.homes) :
                      room_state'.homes[j] = st1.homes[i]]_vars

\* C39: a disconnect of one connection, interleaved with joins of another,
\* removes the other from no membership set: once no disconnect is running,
\* every connection that has joined is a member of every room of its
\* joined-room list.
C39_JoinSurvivesDisconnect ==
    (\A h \in Threads : inflight[h].op # "disconnect")
    => \A b \in DOMAIN online :
           joined[b] = "join"
           => \A i \in 1..Len(online[b].rooms) :
                  b \in Members(room_members, online[b].rooms[i])

\* C40: a DM between two connections reaches no third one: whatever dm_open
\* events were handled, the relay group of a pair of connection ids has no
\* member outside the pair; an event relayed to a group goes to the group of
\* its sender and addressee; and the history sent on dm_open holds only
\* messages that the opener sent or was sent.
C40_RelayGroupPrivate ==
    /\ \A c \in Sids, a \in ConnIds, b \in ConnIds :
           (a # b /\ dm_room(a, b) \in dm_rooms[c]) => SidName(c) \in {a, b}
    /\ \A i \in 1..Len(dm_out) :
           /\ dm_out[i].toRoom # <<>>
              => dm_out[i].toRoom = dm_room(dm_out[i].payload.from_sid,
                                            dm_out[i].payload.to_sid)
           /\ dm_out[i].ev = "dm_history"
              => \A k \in 1..Len(dm_out[i].items) :
                     SidName(dm_out[i].toSid) \in
                         {dm_out[i].items[k].from_sid,
                          dm_out[i].items[k].to_sid}

\* a has opened the group of the pair {a, b}, c has sent a dm_open whose
\* to_sid spells that pair, and a DM of a has just been relayed to the group
C40_Witness ==
    \E a \in Sids, c \in Sids, b \in ConnIds :
        /\ a # c
        /\ b \notin {SidName(a), SidName(c)}
        /\ dm_room(SidName(a), b) \in dm_rooms[a]
        /\ dm_room(SidName(c), SidName(a) \o <<":">> \o b) \in dm_rooms[c]
        /\ last.op = "dm_send"
        /\ dm_out # <<>>
        /\ dm_out[1].toRoom = dm_room(SidName(a), b)

=============================================================================
